---- MODULE Spec2Model ----
(***************************************************************************)
(* A model of the browser resolution engine of hls-resolver.              *)
(*                                                                         *)
(* Part 1: BrowserPool / BrowserPage (src/core/resolver/browser.pool.ts).  *)
(* The repository holds two revisions of the pool that differ only in      *)
(* getAvailableBrowser: one throws when the chosen browser is              *)
(* disconnected, the other launches a replacement.  The variable           *)
(* `recreate` selects the revision.                                        *)
(*                                                                         *)
(* The pool limits page creation with p-limit: pageLimit(fn) runs fn when  *)
(* fewer than maxConcurrentPages fns are running and queues it (FIFO)      *)
(* otherwise; a slot is given back when fn settles.                        *)
(***************************************************************************)
EXTENDS Naturals, Integers, Sequences, FiniteSets, TLC

\* ------------------------------------------------------------- bounds
NumCallers == 4           \* getPage() invocations, numbered in arrival order
MaxConcurrentPages == 2   \* M: options.maxConcurrentPages
BrowserPoolSize == 1      \* N: options.browserPoolSize (Spec, SpecResolve)
ShutdownPoolSize == 2     \* N: options.browserPoolSize (SpecShutdown)
NumShutdownCallers == 2   \* getPage() invocations (SpecShutdown)
MaxLaunches == 2          \* replacement browsers that can be launched
MaxCrashes == 1           \* browser disconnections
MaxReleaseCalls == 2      \* release() calls made, over all leases
MaxShutdownCalls == 2     \* shutdown() calls
NumResolutions == 3       \* resolveHLS() invocations (SpecResolve)

Max(a, b) == IF a >= b THEN a ELSE b

Callers == 1..NumCallers
Resolutions == 1..NumResolutions
ShutdownCallers == 1..NumShutdownCallers
BrowserIds == 1..(Max(BrowserPoolSize, ShutdownPoolSize) + MaxLaunches)
NoBrowser == 0

VARIABLES
  recreate,          \* TRUE: the getAvailableBrowser revision that re-creates
  browsers,          \* BrowserPool.browsers (sequence of browser ids)
  browserState,      \* per browser id: "unborn" | "connected" | "disconnected" | "closed"
  launched,          \* replacement browsers launched so far
  crashes,           \* disconnections so far
  isShuttingDown,    \* BrowserPool.isShuttingDown
  activePagesCount,  \* BrowserPool.activePagesCount
  activeCount,       \* p-limit: fns running
  queue,             \* p-limit: callers waiting, FIFO
  pc,                \* per caller: where its getPage()/lease is
  chosen,            \* per caller: the browser of its page (NoBrowser: none)
  err,               \* per caller: the error its getPage() rejected with
  waited,            \* callers that were queued behind the limit
  outcome,           \* per caller: how the body of its resolveHLS() ended
  tabOpen,           \* per caller: its tab exists in the browser
  isReleased,        \* BrowserPage.isReleased
  relPending,        \* per caller: release() calls awaiting page.close()
  releaseCalls,      \* release() calls made so far
  callbackRuns,      \* per caller: times releaseCallback() ran
  shutdownPc,        \* "idle" | "closing" | "done" | "failed"
  shutdownCalls,     \* shutdown() calls made
  closePending,      \* browsers whose close() is in flight
  closeFailed,       \* browsers whose close() threw
  closeOk,           \* browsers whose close() resolved
  \* ---- the Strategy Cache and one run of performActivationStrategy()
  cache,             \* strategyCache: per domain, the stored strategy name
  actDomain,         \* hostname of the page being resolved
  actNeed,           \* the page: center clicks after which it requests its stream
  actFailAt,         \* the environment: which click throws (0: none)
  actPc,             \* "start" | "loop" | "done"
  actStrategies,     \* the strategies list of the run
  actIdx,            \* position in actStrategies
  actTry,            \* clicks made for the current strategy
  actClicks,         \* clicks made by the run
  actResult,         \* the strategy name returned, "null", or "threw"
  \* ---- one resolveHLS() with its navigateAndDetect(), for caller 1
  reqUrl,            \* request.url: [wellFormed, protocol, hostname]
  allowlist,         \* getAllowlistHosts(): set of [wildcard, base]
  clickRetries,      \* options.clickRetries
  pageDom,           \* the page: [overlays, plays, frames] it shows
  navPc,             \* where resolveHLS()/navigateAndDetect() is
  navigated,         \* the page has loaded the URL
  hasCandidate,      \* detector.getCandidates().length > 0
  arrivedAt,         \* the step during which the first candidate was observed
  detectedAt,        \* the wait in which the engine saw a candidate
  successfulStrategy,\* the strategy recorded ("null": none)
  clicksPerformed,   \* clicksPerformed of navigateAndDetect()
  interactions,      \* kinds of interaction attempted on the page
  interactionFailed, \* a click or evaluate of the chain threw or timed out
  waitSite,          \* the step whose waitForStreamDetection() is running
  waitLeft,          \* iterations left before its timeout
  elemsLeft,         \* elements left in the play-element / iframe loop
  navThrew,          \* why resolveHLS() throws ("none": it does not)
  manifestsFound,    \* manifests.length > 0 in the response
  listenersRemoved,  \* page.removeAllListeners('request') was called
  pageRequests,      \* requests issued by the page
  undecided,         \* requests that got neither continue() nor abort()
  \* ---- one RequestInterceptor and the request it handles
  icRules,           \* RequestInterceptor.rules
  icRegistered,      \* the rules in the order they were registered
  icResult,          \* what handleRequest() did with the request
  \* ---- one HLSDetector
  candidates,        \* HLSDetector.candidates: a Map in insertion order
  detMerging,        \* TRUE: the addCandidate revision that merges
  detObs,            \* page events handled so far
  seenReq,           \* URLs observed at request time
  seenResp,          \* URLs observed at response time
  \* ---- one strategy cache store
  storeKind,         \* "memory": InMemoryStrategyCache, "json": JsonStrategyCache
  cacheFile,         \* what strategy-cache.json holds
  storeOps,          \* get/set calls made
  storeResult,       \* the last call: [op, domain, value, threw]
  \* ---- one manifest handed to M3U8Parser
  content,           \* the manifest text: its lines, each a row of lexemes
  baseUrl,           \* the URL the manifest was fetched from
  parsed,            \* {} before parseManifest returns, then {its result}
  basicInfo,         \* {} before getBasicInfo returns, then {its result}
  \* ---- the manifests of the candidates, fetched one after the other
  fetchCandidates,   \* the candidates handed to processHLSCandidates
  fetchIdx,          \* the candidate being processed
  fetchPc,           \* where fetchManifestContent stands for it
  fetchLog,          \* every axios.get made: [candidate, headers, code]
  fetchReturned,     \* what fetchManifestContent returned, per candidate
  \* ---- the waits of one navigateAndDetect, on the clock
  timeoutMs,         \* options.timeoutMs: the time budget of the resolution
  waitIn,            \* [clickRetries, overlays, plays, frames] of the call
  waitIdx,           \* the sub-wait that comes next
  waitedMs,          \* milliseconds spent in the sub-waits so far
  waitEnd,           \* "running", then "returned" or "threw"
  \* ---- the resolutions that hold leases of one browser
  shPc,              \* per resolution: "idle", "leased", "armed",
                     \* "navigating", "navigated", "done"
  shChildren,        \* the pages that have opened a child target
  shSessions,        \* per detector: the targets its CDP sessions are on
  shCandidates,      \* per detector: the URLs of its candidates
  shResponses,       \* responses received so far
  shPending,         \* per detector: the targets whose createCDPSession()
                     \* it is waiting for
  shGuards,          \* the resolutions whose popup guard is on the browser
  \* ---- the file writes of concurrent set() calls of the JSON store
  pendingWrites,     \* the data of the fs.writeFile() calls in flight
  persistFailed,     \* an fs.writeFile() of persist() has failed
  \* ---- the cookies of one HLSDetector's candidates
  ckJar,             \* the domains of the cookies page.cookies() returns
  ckCandidates,      \* the hosts of the candidates' manifest URLs
  ckCookies,         \* per candidate: the domains of candidate.cookies
  ckSent,            \* per candidate: domains of the cookies its fetch sent
  \* ---- the popup guard of one navigateAndDetect
  guUrl,             \* context.url, the page being resolved
  guTabs,            \* the child targets created so far, in order
  \* ---- the request the standard interceptor handles
  stdRequest         \* [url, resourceType] of the request

poolVars == <<browsers, browserState, launched, crashes, isShuttingDown,
              activePagesCount, activeCount, queue>>
callerVars == <<pc, chosen, err, waited, outcome>>
leaseVars == <<tabOpen, isReleased, relPending, releaseCalls, callbackRuns>>
shutdownVars == <<shutdownPc, shutdownCalls, closePending, closeFailed, closeOk>>
actVars == <<cache, actDomain, actNeed, actFailAt, actPc, actStrategies,
             actIdx, actTry, actClicks, actResult>>
actRunVars == <<actDomain, actNeed, actFailAt, actPc, actStrategies, actIdx,
                actTry, actClicks, actResult>>
navVars == <<reqUrl, allowlist, clickRetries, pageDom, navPc, navigated,
             hasCandidate, arrivedAt, detectedAt, successfulStrategy,
             clicksPerformed, interactions, interactionFailed, waitSite,
             waitLeft, elemsLeft, navThrew, manifestsFound, listenersRemoved,
             pageRequests, undecided>>
icVars == <<icRules, icRegistered, icResult>>
detVars == <<candidates, detMerging, detObs, seenReq, seenResp>>
storeVars == <<storeKind, cacheFile, storeOps, storeResult>>
parserVars == <<content, baseUrl, parsed, basicInfo>>
fetchVars == <<fetchCandidates, fetchIdx, fetchPc, fetchLog, fetchReturned>>
budgetVars == <<timeoutMs, waitIn, waitIdx, waitedMs, waitEnd>>
sharedVars == <<shPc, shChildren, shSessions, shCandidates, shResponses,
                shPending, shGuards>>
persistVars == <<pendingWrites, persistFailed>>
cookieVars == <<ckJar, ckCandidates, ckCookies, ckSent>>
popupVars == <<guUrl, guTabs>>
stdVars == <<stdRequest>>
auxVars == <<parserVars, fetchVars, budgetVars, sharedVars, persistVars, cookieVars, popupVars, stdVars>>
nonPoolVars == <<actVars, navVars, icVars, detVars, storeVars, auxVars>>
nonActVars == <<recreate, poolVars, callerVars, leaseVars, shutdownVars,
                navVars, icVars, detVars, storeVars, auxVars>>
nonNavVars == <<recreate, poolVars, callerVars, leaseVars, shutdownVars,
                actRunVars, icVars, detVars, storeVars, auxVars>>
nonIcVars == <<recreate, poolVars, callerVars, leaseVars, shutdownVars,
               actVars, navVars, detVars, storeVars, auxVars>>
nonDetVars == <<recreate, poolVars, callerVars, leaseVars, shutdownVars,
                actVars, navVars, icVars, storeVars, auxVars>>
nonStoreVars == <<recreate, poolVars, callerVars, leaseVars, shutdownVars,
                  actRunVars, navVars, icVars, detVars, auxVars>>
vars == <<recreate, poolVars, callerVars, leaseVars, shutdownVars, actVars,
          navVars, icVars, detVars, storeVars, auxVars>>
nonParserVars == <<recreate, poolVars, callerVars, leaseVars, shutdownVars,
   actVars, navVars, icVars, detVars, storeVars,
   fetchVars, budgetVars, sharedVars, persistVars, cookieVars, popupVars, stdVars>>
nonStdVars == <<recreate, poolVars, callerVars, leaseVars, shutdownVars,
   actVars, navVars, icVars, detVars, storeVars,
   parserVars, fetchVars, budgetVars, sharedVars, persistVars, cookieVars, popupVars>>
nonPopupVars == <<recreate, poolVars, callerVars, leaseVars, shutdownVars,
   actVars, navVars, icVars, detVars, storeVars,
   parserVars, fetchVars, budgetVars, sharedVars, persistVars, cookieVars, stdVars>>
nonCookieVars == <<recreate, poolVars, callerVars, leaseVars, shutdownVars,
   actVars, navVars, icVars, detVars, storeVars,
   parserVars, fetchVars, budgetVars, sharedVars, persistVars, popupVars, stdVars>>
nonPersistVars == <<recreate, poolVars, callerVars, leaseVars, shutdownVars,
   actVars, navVars, icVars, detVars, storeVars,
   parserVars, fetchVars, budgetVars, sharedVars, cookieVars, popupVars, stdVars>>
nonSharedVars == <<recreate, poolVars, callerVars, leaseVars, shutdownVars,
   actVars, navVars, icVars, detVars, storeVars,
   parserVars, fetchVars, budgetVars, persistVars, cookieVars, popupVars, stdVars>>
nonBudgetVars == <<recreate, poolVars, callerVars, leaseVars, shutdownVars,
   actVars, navVars, icVars, detVars, storeVars,
   parserVars, fetchVars, sharedVars, persistVars, cookieVars, popupVars, stdVars>>
nonFetchVars == <<recreate, poolVars, callerVars, leaseVars, shutdownVars,
   actVars, navVars, icVars, detVars, storeVars,
   parserVars, budgetVars, sharedVars, persistVars, cookieVars, popupVars, stdVars>>


\* new BrowserPool(options) followed by initialize(): n connected browsers.
PoolInit(n) ==
  /\ recreate \in BOOLEAN
  /\ browsers = [i \in 1..n |-> i]
  /\ browserState = [b \in BrowserIds |->
                       IF b <= n THEN "connected" ELSE "unborn"]
  /\ launched = 0
  /\ crashes = 0
  /\ isShuttingDown = FALSE
  /\ activePagesCount = 0
  /\ activeCount = 0
  /\ queue = <<>>
  /\ pc = [c \in Callers |-> "idle"]
  /\ chosen = [c \in Callers |-> NoBrowser]
  /\ err = [c \in Callers |-> "none"]
  /\ waited = {}
  /\ outcome = [c \in Callers |-> "none"]
  /\ tabOpen = [c \in Callers |-> FALSE]
  /\ isReleased = [c \in Callers |-> FALSE]
  /\ relPending = [c \in Callers |-> 0]
  /\ releaseCalls = 0
  /\ callbackRuns = [c \in Callers |-> 0]
  /\ shutdownPc = "idle"
  /\ shutdownCalls = 0
  /\ closePending = {}
  /\ closeFailed = {}
  /\ closeOk = {}


\* ------------------------------------------------------ Strategy Cache,
\* performActivationStrategy

\* enum ActivationStrategyName, in declaration order (Object.values).
ActivationStrategyNames ==
  <<"none", "fast-center-once", "fast-center-double", "overlay-close",
    "play-elements">>
\* What a cache may hold for a domain: a name of the enum, or a stale name
\* loaded from the cache file.
CacheEntries ==
  {ActivationStrategyNames[i] : i \in 1..Len(ActivationStrategyNames)}
    \cup {"iframe-click"}
NoEntry == "null"
Domains == {"a.example", "b.example"}

MaxClicksNeeded == 7      \* pages need 0..MaxClicksNeeded center clicks
MaxFailAt == 4            \* the click that throws is one of the first MaxFailAt

\* InMemoryStrategyCache.get / JsonStrategyCache.get: the entry, or null.
CacheGet(d) == cache[d]

\* Mutant: a cached strategy is tried exclusively.
StrategiesCachedOnly(cached) ==
  IF cached # NoEntry THEN <<cached>>
  ELSE <<"fast-center-once", "fast-center-double">>

\* The strategies list of performActivationStrategy(): the cached name first and
\* every name of the enum after it, or the two center-click strategies.
StrategiesFor(cached) ==
  IF cached # NoEntry
    THEN <<cached>> \o SelectSeq(ActivationStrategyNames, LAMBDA n : n # cached)
    ELSE <<"fast-center-once", "fast-center-double">>

ClickRetries(name) == IF name = "fast-center-double" THEN 2 ELSE 1

\* detector.getCandidates().length > 0 once the page got the clicks it needs.
HasCandidate(clicks) == actNeed <= clicks

\* No run of performActivationStrategy() is in progress.
ActivationIdle ==
  /\ cache = [d \in Domains |-> NoEntry]
  /\ actDomain = "a.example"
  /\ actNeed = 0
  /\ actFailAt = 0
  /\ actPc = "done"
  /\ actStrategies = <<>>
  /\ actIdx = 0
  /\ actTry = 0
  /\ actClicks = 0
  /\ actResult = "null"

\* A run of performActivationStrategy() is about to start: any cache content,
\* any page, any click failure.
ActivationInit ==
  /\ cache \in [Domains -> CacheEntries \cup {NoEntry}]
  /\ actDomain \in Domains
  /\ actNeed \in 0..MaxClicksNeeded
  /\ actFailAt \in 0..MaxFailAt
  /\ actPc = "start"
  /\ actStrategies = <<>>
  /\ actIdx = 0
  /\ actTry = 0
  /\ actClicks = 0
  /\ actResult = "null"

\* ------------------------------------------------------ components at rest

\* handleRequest() has not run.
NoDecision == [action |-> "none", rule |-> 0]
\* No get() or set() was called.
NoCall == [op |-> "none", domain |-> "", value |-> NoEntry, threw |-> FALSE]

\* No RequestInterceptor is in use.
IcIdle == icRules = <<>> /\ icRegistered = <<>> /\ icResult = NoDecision

\* No HLSDetector is observing.
DetIdle ==
  /\ candidates = <<>>
  /\ detMerging = FALSE
  /\ detObs = 0
  /\ seenReq = {}
  /\ seenResp = {}

\* No call on the strategy cache is followed.
StoreIdle ==
  /\ storeKind = "memory"
  /\ cacheFile = [d \in Domains |-> NoEntry]
  /\ storeOps = 0
  /\ storeResult = NoCall

\* No manifest is being parsed.
ParserIdle ==
  /\ content = << <<>> >>
  /\ baseUrl = "https://example.com/"
  /\ parsed = {}
  /\ basicInfo = {}

\* No manifest is being fetched.
FetchIdle ==
  /\ fetchCandidates = <<>>
  /\ fetchIdx = 1
  /\ fetchPc = "done"
  /\ fetchLog = <<>>
  /\ fetchReturned = <<>>

\* No resolution is on the clock.
BudgetIdle ==
  /\ timeoutMs = 10000
  /\ waitIn = [clickRetries |-> 0, overlays |-> 0, plays |-> 0, frames |-> 0]
  /\ waitIdx = 1
  /\ waitedMs = 0
  /\ waitEnd = "returned"

\* Resolutions that run at the same time on pages of one browser.
NumLeases == 2

\* No resolution holds a lease of the browser.
SharedIdle ==
  /\ shPc = [r \in 1..NumLeases |-> "done"]
  /\ shChildren = {}
  /\ shSessions = [r \in 1..NumLeases |-> {}]
  /\ shCandidates = [r \in 1..NumLeases |-> {}]
  /\ shResponses = 0
  /\ shPending = [r \in 1..NumLeases |-> {}]
  /\ shGuards = {}

\* No write of the cache file is in flight.
PersistIdle ==
  /\ pendingWrites = {}
  /\ persistFailed = FALSE

\* Host names, as the pieces that tell their suffixes apart: example.com,
\* cdn.example.com, notexample.com and cdn.other.net.
ManifestHosts ==
  {<<"example.com">>, <<"cdn", ".", "example.com">>, <<"not", "example.com">>,
   <<"cdn", ".", "other.net">>}

\* A detector without candidates on a page without cookies.
CookieIdle ==
  /\ ckJar = {}
  /\ ckCandidates = {}
  /\ ckCookies = [h \in ManifestHosts |-> {}]
  /\ ckSent = [h \in ManifestHosts |-> {}]

\* No popup guard is installed.
PopupIdle ==
  /\ guUrl = [scheme |-> "https:", host |-> "example.com"]
  /\ guTabs = <<>>

\* No request is before the standard interceptor.
StdIdle ==
  stdRequest = [url |-> {}, resourceType |-> "other"]

AuxIdle == ParserIdle /\ FetchIdle /\ BudgetIdle /\ SharedIdle /\ PersistIdle /\ CookieIdle /\ PopupIdle /\ StdIdle

\* ------------------------------------------------------ the request of a
\* resolution: validateRequest, options, the page

MaxClickRetries == 1      \* options.clickRetries is one of 0..MaxClickRetries
MaxOverlays == 1          \* visible overlay elements on a page
MaxPlayElements == 1      \* play elements the page shows
MaxFrames == 1            \* iframes the page shows
MaxPolls == 2             \* iterations of a waitForStreamDetection() loop
MaxPageRequests == 2      \* requests a page issues

\* request.url: a malformed string, or a URL with its protocol and hostname.
RequestUrls ==
  {[wellFormed |-> TRUE,  protocol |-> "https:", hostname |-> "a.example"],
   [wellFormed |-> TRUE,  protocol |-> "https:", hostname |-> "b.example"],
   [wellFormed |-> TRUE,  protocol |-> "ftp:",   hostname |-> "a.example"],
   [wellFormed |-> FALSE, protocol |-> "",       hostname |-> ""]}

\* ALLOWLIST_HOSTS as getAllowlistHosts() returns it; an entry '*.x' is
\* [wildcard |-> TRUE, base |-> x] (startsWith('*.'), slice(2)).
Allowlists ==
  {{},
   {[wildcard |-> FALSE, base |-> "a.example"]},
   {[wildcard |-> TRUE,  base |-> "a.example"]},
   {[wildcard |-> TRUE,  base |-> "example"]}}

\* domain.endsWith('.' + base), over the hostnames of the model.
EndsWithDot(domain, base) ==
  <<domain, base>> \in {<<"a.example", "example">>, <<"b.example", "example">>}

\* isValidUrl(): new URL(url) parses and the protocol is http: or https:.
IsValidUrl(u) == u.wellFormed /\ u.protocol \in {"http:", "https:"}

\* extractDomain(): the hostname, '' when the URL does not parse.
ExtractDomain(u) == IF u.wellFormed THEN u.hostname ELSE ""

\* isDomainAllowed(): an empty allowlist allows every domain.
IsDomainAllowed(u, allowed) ==
  \/ allowed = {}
  \/ \E a \in allowed :
       IF a.wildcard
         THEN ExtractDomain(u) = a.base \/ EndsWithDot(ExtractDomain(u), a.base)
         ELSE ExtractDomain(u) = a.base

\* Mutant: validateRequest() that accepts every request.
ValidateRequestSkipped(u, allowed) == TRUE

\* validateRequest(): TRUE when it returns, FALSE when it throws.
ValidateRequest(u, allowed) == IsValidUrl(u) /\ IsDomainAllowed(u, allowed)

\* The contents of the Strategy Cache when a resolution starts.
PriorCaches ==
  {[d \in Domains |-> e] : e \in {NoEntry, "none", "overlay-close"}}

\* Map.set of the cache.
CacheSet(c, d, s) == [c EXCEPT ![d] = s]

\* No resolution of the detailed kind is in progress.
NavIdle ==
  /\ reqUrl = [wellFormed |-> FALSE, protocol |-> "", hostname |-> ""]
  /\ allowlist = {}
  /\ clickRetries = 0
  /\ pageDom = [overlays |-> 0, plays |-> 0, frames |-> 0]
  /\ navPc = "threw"
  /\ navigated = FALSE
  /\ hasCandidate = FALSE
  /\ arrivedAt = "never"
  /\ detectedAt = "never"
  /\ successfulStrategy = "null"
  /\ clicksPerformed = 0
  /\ interactions = {}
  /\ interactionFailed = FALSE
  /\ waitSite = "none"
  /\ waitLeft = 0
  /\ elemsLeft = 0
  /\ navThrew = "none"
  /\ manifestsFound = FALSE
  /\ listenersRemoved = FALSE
  /\ pageRequests = 0
  /\ undecided = 0

\* resolveHLS(request) is called: any request, allowlist, options and page.
NavInit ==
  /\ reqUrl \in RequestUrls
  /\ allowlist \in Allowlists
  /\ clickRetries \in 0..MaxClickRetries
  /\ pageDom \in [overlays : 0..MaxOverlays, plays : 0..MaxPlayElements,
                  frames : 0..MaxFrames]
  /\ navPc = "start"
  /\ navigated = FALSE
  /\ hasCandidate = FALSE
  /\ arrivedAt = "never"
  /\ detectedAt = "never"
  /\ successfulStrategy = "null"
  /\ clicksPerformed = 0
  /\ interactions = {}
  /\ interactionFailed = FALSE
  /\ waitSite = "none"
  /\ waitLeft = 0
  /\ elemsLeft = 0
  /\ navThrew = "none"
  /\ manifestsFound = FALSE
  /\ listenersRemoved = FALSE
  /\ pageRequests = 0
  /\ undecided = 0

\* ------------------------------------------------------ performActivationStrategy

\* Lines 785-795: the cache is read, the list is built, and a candidate already
\* present ends the run with strategy none.
ActivationStart ==
  /\ actPc = "start"
  /\ actStrategies' = StrategiesFor(CacheGet(actDomain))
  /\ IF HasCandidate(actClicks)
       THEN actPc' = "done" /\ actResult' = "none" /\ actIdx' = actIdx
       ELSE actPc' = "loop" /\ actResult' = actResult /\ actIdx' = 1
  /\ UNCHANGED <<cache, actDomain, actNeed, actFailAt, actTry, actClicks>>
  /\ UNCHANGED nonActVars

\* Line 798: the strategy none is skipped.
ActivationSkipNone ==
  /\ actPc = "loop"
  /\ actIdx <= Len(actStrategies)
  /\ actStrategies[actIdx] = "none"
  /\ actIdx' = actIdx + 1
  /\ UNCHANGED <<cache, actDomain, actNeed, actFailAt, actPc, actStrategies,
                 actTry, actClicks, actResult>>
  /\ UNCHANGED nonActVars

\* Lines 804-811: one click at the viewport centre (clickViewportCenterFast
\* throws when the click fails), the 3 s wait, and the check of the detector.
ActivationClick ==
  /\ actPc = "loop"
  /\ actIdx <= Len(actStrategies)
  /\ actStrategies[actIdx] # "none"
  /\ IF actFailAt = actClicks + 1
       THEN /\ actPc' = "done"
            /\ actResult' = "threw"
            /\ UNCHANGED <<actClicks, actIdx, actTry>>
       ELSE /\ actClicks' = actClicks + 1
            /\ IF HasCandidate(actClicks + 1)
                 THEN /\ actPc' = "done"
                      /\ actResult' = actStrategies[actIdx]
                      /\ UNCHANGED <<actIdx, actTry>>
                 ELSE /\ UNCHANGED <<actPc, actResult>>
                      /\ IF actTry + 1 < ClickRetries(actStrategies[actIdx])
                           THEN actTry' = actTry + 1 /\ actIdx' = actIdx
                           ELSE actTry' = 0 /\ actIdx' = actIdx + 1
  /\ UNCHANGED <<cache, actDomain, actNeed, actFailAt, actStrategies>>
  /\ UNCHANGED nonActVars

\* Lines 815-816: every strategy was tried, null is returned.
ActivationExhausted ==
  /\ actPc = "loop"
  /\ actIdx > Len(actStrategies)
  /\ actPc' = "done"
  /\ actResult' = "null"
  /\ UNCHANGED <<cache, actDomain, actNeed, actFailAt, actStrategies, actIdx,
                 actTry, actClicks>>
  /\ UNCHANGED nonActVars

InitActivation ==
  /\ PoolInit(BrowserPoolSize) /\ recreate /\ ActivationInit /\ NavIdle
  /\ IcIdle /\ DetIdle /\ StoreIdle /\ AuxIdle

NextActivation ==
  \/ ActivationStart
  \/ ActivationSkipNone
  \/ ActivationClick
  \/ ActivationExhausted

SpecActivation == InitActivation /\ [][NextActivation]_vars

RECURSIVE TotalClicks(_)
\* The clicks a strategies list makes when no candidate ever appears.
TotalClicks(strategies) ==
  IF strategies = <<>> THEN 0
  ELSE (IF Head(strategies) = "none" THEN 0 ELSE ClickRetries(Head(strategies)))
         + TotalClicks(Tail(strategies))

\* The page yields a candidate when its domain has no cache entry: it needs no
\* more clicks than the default list makes, and no click before that throws.
DetectsWithEmptyCache ==
  /\ actNeed <= TotalClicks(<<"fast-center-once", "fast-center-double">>)
  /\ (actFailAt = 0 \/ actFailAt > actNeed)

\* C10: whatever the cache holds for the page's domain, a page that yields a
\* candidate with an empty cache yields one (the run returns a strategy).
C10_NoFalseNegative ==
  (actPc = "done" /\ DetectsWithEmptyCache) => actResult \notin {"null", "threw"}

\* A wrong entry is cached for a page that needs two clicks, and the run found
\* the candidate.
C10_Witness ==
  /\ actPc = "done" /\ actStrategies # <<>>
  /\ cache[actDomain] = "overlay-close"
  /\ actNeed = 2
  /\ actResult \notin {"null", "threw"}

\* ------------------------------------------------------ getPage / p-limit

\* Mutant: the newest waiting caller is served first.
DequeueNewest(q) == q[Len(q)]

\* p-limit dequeues the caller that has waited longest.
Dequeue(q) == Head(q)

\* getAvailableBrowser(): a random slot of this.browsers.  A connected browser
\* is returned; otherwise one revision throws 'No available browser in pool'
\* and the other awaits createBrowser().  With no browsers the slot is undefined.
GetAvailableBrowser ==
  LET Outcome(b) ==
        IF b # NoBrowser /\ browserState[b] = "connected"
          THEN [pc |-> "newPage", br |-> b, err |-> "none"]
        ELSE IF recreate
          THEN [pc |-> "launching", br |-> b, err |-> "none"]
        ELSE [pc |-> "throwing", br |-> NoBrowser, err |-> "NoAvailableBrowser"]
  IN IF browsers = <<>>
       THEN {Outcome(NoBrowser)}
       ELSE {Outcome(browsers[i]) : i \in 1..Len(browsers)}

\* p-limit's next(): the slot of a settled fn is given back and, when a caller
\* waits, the first one starts at once (its fn runs to its first await).
\* pcX, chosenX, errX: the callers' fields as the settling step leaves them.
PLimitNext(pcX, chosenX, errX) ==
  \/ /\ queue = <<>>
     /\ activeCount' = activeCount - 1
     /\ queue' = queue
     /\ pc' = pcX /\ chosen' = chosenX /\ err' = errX
  \/ /\ queue # <<>>
     /\ \E o \in GetAvailableBrowser :
          LET h == Dequeue(queue) IN
          /\ pc' = [pcX EXCEPT ![h] = o.pc]
          /\ chosen' = [chosenX EXCEPT ![h] = o.br]
          /\ err' = [errX EXCEPT ![h] = o.err]
          /\ queue' = SelectSeq(queue, LAMBDA x : x # h)
     /\ activeCount' = activeCount

\* getPage() entry check (browser.pool.ts:118).
RejectsNewCalls == isShuttingDown

\* getPage(): rejected while shutting down; otherwise handed to pageLimit, which
\* starts it when a slot is free and queues it when not.  Callers are numbered in
\* arrival order.
GetPage(c) ==
  /\ pc[c] = "idle"
  /\ \A d \in Callers : d < c => pc[d] # "idle"
  /\ \/ /\ RejectsNewCalls
        /\ pc' = [pc EXCEPT ![c] = "rejected"]
        /\ err' = [err EXCEPT ![c] = "ShuttingDown"]
        /\ UNCHANGED <<chosen, waited, activeCount, queue>>
     \/ /\ ~RejectsNewCalls
        /\ activeCount < MaxConcurrentPages
        /\ \E o \in GetAvailableBrowser :
             /\ pc' = [pc EXCEPT ![c] = o.pc]
             /\ chosen' = [chosen EXCEPT ![c] = o.br]
             /\ err' = [err EXCEPT ![c] = o.err]
        /\ activeCount' = activeCount + 1
        /\ UNCHANGED <<waited, queue>>
     \/ /\ ~RejectsNewCalls
        /\ activeCount >= MaxConcurrentPages
        /\ queue' = Append(queue, c)
        /\ pc' = [pc EXCEPT ![c] = "queued"]
        /\ waited' = waited \cup {c}
        /\ UNCHANGED <<chosen, err, activeCount>>
  /\ UNCHANGED <<nonPoolVars, recreate, browsers, browserState, launched, crashes,
                 isShuttingDown, activePagesCount, outcome, leaseVars,
                 shutdownVars>>

\* createBrowser() settles for a caller whose chosen browser was disconnected
\* (re-creating revision): the new browser replaces the old one in this.browsers
\* and newPage() is called on it; a failed launch rejects the getPage().
LaunchDone(c) ==
  /\ pc[c] = "launching"
  /\ \/ /\ launched < MaxLaunches
        /\ LET nb == CHOOSE b \in BrowserIds :
                        /\ browserState[b] = "unborn"
                        /\ \A o \in BrowserIds :
                             browserState[o] = "unborn" => b <= o
           IN
           /\ browserState' = [browserState EXCEPT ![nb] = "connected"]
           /\ browsers' = [i \in 1..Len(browsers) |->
                             IF browsers[i] = chosen[c] THEN nb ELSE browsers[i]]
           /\ chosen' = [chosen EXCEPT ![c] = nb]
        /\ launched' = launched + 1
        /\ pc' = [pc EXCEPT ![c] = "newPage"]
        /\ UNCHANGED <<err, activeCount, queue>>
     \/ /\ PLimitNext([pc EXCEPT ![c] = "failed"], chosen,
                      [err EXCEPT ![c] = "LaunchFailed"])
        /\ UNCHANGED <<browsers, browserState, launched>>
  /\ UNCHANGED <<nonPoolVars, recreate, crashes, isShuttingDown, activePagesCount, waited,
                 outcome, leaseVars, shutdownVars>>

\* browser.newPage() settles: on a connected browser the tab exists and
\* activePagesCount is incremented; on a dead browser it rejects.
NewPageDone(c) ==
  /\ pc[c] = "newPage"
  /\ \/ /\ browserState[chosen[c]] = "connected"
        /\ activePagesCount' = activePagesCount + 1
        /\ tabOpen' = [tabOpen EXCEPT ![c] = TRUE]
        /\ pc' = [pc EXCEPT ![c] = "configuring"]
        /\ UNCHANGED <<err, chosen, activeCount, queue>>
     \/ /\ browserState[chosen[c]] # "connected"
        /\ PLimitNext([pc EXCEPT ![c] = "failed"], chosen,
                      [err EXCEPT ![c] = "PageFailed"])
        /\ UNCHANGED <<activePagesCount, tabOpen>>
  /\ UNCHANGED <<nonPoolVars, recreate, browsers, browserState, launched, crashes,
                 isShuttingDown, waited, outcome, isReleased, relPending,
                 releaseCalls, callbackRuns, shutdownVars>>

\* configurePage() settles and fn returns new BrowserPage(...): the caller holds
\* the lease and p-limit gives the slot back.  On a dead browser it rejects.
ConfigureDone(c) ==
  /\ pc[c] = "configuring"
  /\ \/ /\ browserState[chosen[c]] = "connected"
        /\ PLimitNext([pc EXCEPT ![c] = "leased"], chosen, err)
     \/ /\ browserState[chosen[c]] # "connected"
        /\ PLimitNext([pc EXCEPT ![c] = "failed"], chosen,
                      [err EXCEPT ![c] = "PageFailed"])
  /\ UNCHANGED <<nonPoolVars, recreate, browsers, browserState, launched, crashes,
                 isShuttingDown, activePagesCount, waited, outcome, leaseVars,
                 shutdownVars>>

\* fn threw at getAvailableBrowser(): the getPage() promise rejects and p-limit
\* gives the slot back.
Throw(c) ==
  /\ pc[c] = "throwing"
  /\ PLimitNext([pc EXCEPT ![c] = "failed"], chosen, err)
  /\ UNCHANGED <<nonPoolVars, recreate, browsers, browserState, launched, crashes,
                 isShuttingDown, activePagesCount, waited, outcome, leaseVars,
                 shutdownVars>>

\* A browser process dies ('disconnected'): its tabs are gone with it.
Disconnect(b) ==
  /\ browserState[b] = "connected"
  /\ crashes < MaxCrashes
  /\ crashes' = crashes + 1
  /\ browserState' = [browserState EXCEPT ![b] = "disconnected"]
  /\ tabOpen' = [c \in Callers |-> tabOpen[c] /\ chosen[c] # b]
  /\ UNCHANGED <<nonPoolVars, recreate, browsers, launched, isShuttingDown, activePagesCount,
                 activeCount, queue, callerVars, isReleased, relPending,
                 releaseCalls, callbackRuns, shutdownVars>>

\* ------------------------------------------------------ BrowserPage.release

\* BrowserPool.releasePage(): the releaseCallback of every lease.
ReleasePage(n) == Max(0, n - 1)

\* release() entry check (browser.pool.ts:335).
AlreadyReleased(c) == isReleased[c]

\* The finally block of release(): isReleased is set and releaseCallback() runs.
ReleaseFinally(c) ==
  /\ isReleased' = [isReleased EXCEPT ![c] = TRUE]
  /\ callbackRuns' = [callbackRuns EXCEPT ![c] = @ + 1]
  /\ activePagesCount' = ReleasePage(activePagesCount)

\* release() up to its first await.  A released lease returns at once.  Otherwise
\* page.close() is called and awaited unless page.isClosed(); a page whose tab
\* died with its browser may or may not report isClosed().
ReleaseStart(c) ==
  \/ /\ AlreadyReleased(c)
     /\ UNCHANGED <<tabOpen, isReleased, relPending, callbackRuns,
                    activePagesCount>>
  \/ /\ ~AlreadyReleased(c)
     /\ relPending' = [relPending EXCEPT ![c] = @ + 1]
     /\ UNCHANGED <<tabOpen, isReleased, callbackRuns, activePagesCount>>
  \/ /\ ~AlreadyReleased(c)
     /\ ~tabOpen[c]
     /\ ReleaseFinally(c)
     /\ UNCHANGED <<tabOpen, relPending>>

\* A holder of the lease calls release() (any number of times, also while an
\* earlier call is still awaiting page.close()).
ReleaseCall(c) ==
  /\ pc[c] = "leased"
  /\ releaseCalls < MaxReleaseCalls
  /\ releaseCalls' = releaseCalls + 1
  /\ ReleaseStart(c)
  /\ UNCHANGED <<nonPoolVars, recreate, browsers, browserState, launched, crashes,
                 isShuttingDown, activeCount, queue, callerVars, shutdownVars>>

\* page.close() of a release() call settles (the tab is closed, or the call threw
\* because the browser is gone) and the finally block runs; a resolveHLS() that
\* awaits the release goes on to return or throw.
ReleaseFinish(c) ==
  /\ relPending[c] > 0
  /\ relPending' = [relPending EXCEPT ![c] = @ - 1]
  /\ tabOpen' = [tabOpen EXCEPT ![c] = FALSE]
  /\ ReleaseFinally(c)
  /\ pc' = [pc EXCEPT ![c] = IF @ = "releasing" THEN "exited" ELSE @]
  /\ UNCHANGED <<nonPoolVars, recreate, browsers, browserState, launched, crashes,
                 isShuttingDown, activeCount, queue, chosen, err, waited,
                 outcome, releaseCalls, shutdownVars>>

\* ------------------------------------------------------ BrowserPool.shutdown

\* Mutant: shutdown() without its entry check.
ShutdownNeverCalled == FALSE

\* shutdown() entry check (browser.pool.ts:231).
ShutdownAlreadyCalled == isShuttingDown

\* shutdown() up to the awaits of Promise.all: a repeated call returns at once;
\* the first sets isShuttingDown, clears the p-limit queue (the queued getPage()
\* promises never settle) and calls close() on every connected browser.
Shutdown ==
  /\ shutdownCalls < MaxShutdownCalls
  /\ shutdownCalls' = shutdownCalls + 1
  /\ \/ /\ ShutdownAlreadyCalled
        /\ UNCHANGED <<isShuttingDown, queue, pc, shutdownPc, closePending>>
     \/ /\ ~ShutdownAlreadyCalled
        /\ isShuttingDown' = TRUE
        /\ queue' = <<>>
        /\ pc' = [c \in Callers |-> IF pc[c] = "queued" THEN "abandoned" ELSE pc[c]]
        /\ shutdownPc' = "closing"
        /\ closePending' = {browsers[i] : i \in
                              {j \in 1..Len(browsers) :
                                 browserState[browsers[j]] = "connected"}}
  /\ UNCHANGED <<nonPoolVars, recreate, browsers, browserState, launched, crashes,
                 activePagesCount, activeCount, chosen, err, waited, outcome,
                 leaseVars, closeFailed, closeOk>>

\* Mutant: no per-browser try/catch, Promise.all rejects and shutdown() throws.
OnCloseErrorRethrown == "failed"

\* What a throwing browser.close() does to shutdown(): the per-browser try/catch
\* logs it and the other closes go on.
OnCloseError == "closing"

\* browser.close() of one browser settles: the process is gone with its tabs, or
\* the call threw.
BrowserCloseDone(b) ==
  /\ shutdownPc = "closing"
  /\ b \in closePending
  /\ closePending' = closePending \ {b}
  /\ \/ /\ browserState' = [browserState EXCEPT ![b] = "closed"]
        /\ tabOpen' = [c \in Callers |-> tabOpen[c] /\ chosen[c] # b]
        /\ closeOk' = closeOk \cup {b}
        /\ UNCHANGED <<closeFailed, shutdownPc>>
     \/ /\ closeFailed' = closeFailed \cup {b}
        /\ shutdownPc' = OnCloseError
        /\ UNCHANGED <<browserState, tabOpen, closeOk>>
  /\ UNCHANGED <<nonPoolVars, recreate, browsers, launched, crashes, isShuttingDown,
                 activePagesCount, activeCount, queue, callerVars, isReleased,
                 relPending, releaseCalls, callbackRuns, shutdownCalls>>

\* Promise.all has settled: this.browsers = [], activePagesCount = 0.
ShutdownFinish ==
  /\ shutdownPc = "closing"
  /\ closePending = {}
  /\ browsers' = <<>>
  /\ activePagesCount' = 0
  /\ shutdownPc' = "done"
  /\ UNCHANGED <<nonPoolVars, recreate, browserState, launched, crashes, isShuttingDown,
                 activeCount, queue, callerVars, leaseVars, shutdownCalls,
                 closePending, closeFailed, closeOk>>

\* ------------------------------------------------------ the pool under load

Init ==
  /\ PoolInit(BrowserPoolSize) /\ ActivationIdle /\ NavIdle
  /\ IcIdle /\ DetIdle /\ StoreIdle /\ AuxIdle

Next ==
  \/ \E c \in Callers : GetPage(c)
  \/ \E c \in Callers : LaunchDone(c)
  \/ \E c \in Callers : NewPageDone(c)
  \/ \E c \in Callers : ConfigureDone(c)
  \/ \E c \in Callers : Throw(c)
  \/ \E c \in Callers : ReleaseCall(c)
  \/ \E c \in Callers : ReleaseFinish(c)
  \/ \E b \in BrowserIds : Disconnect(b)
  \/ Shutdown
  \/ \E b \in BrowserIds : BrowserCloseDone(b)
  \/ ShutdownFinish

Spec == Init /\ [][Next]_vars

\* ------------------------------------------------------ resolveHLS over a lease

\* resolveHLS() after getPage() returned (resolver.service.ts:146-149): reading
\* the browser's targets or HLSDetector.setupDetection() may throw.
ResolveSetup(c) ==
  /\ pc[c] = "leased"
  /\ \/ /\ pc' = [pc EXCEPT ![c] = "navigating"]
        /\ UNCHANGED outcome
     \/ /\ pc' = [pc EXCEPT ![c] = "finally"]
        /\ outcome' = [outcome EXCEPT ![c] = "detectorError"]
  /\ UNCHANGED <<nonPoolVars, recreate, poolVars, chosen, err, waited, leaseVars,
                 shutdownVars>>

\* navigateAndDetect() returns its result or throws a navigation error; both
\* leave the try block.
ResolveNavigate(c) ==
  /\ pc[c] = "navigating"
  /\ \E o \in {"return", "navError"} :
       outcome' = [outcome EXCEPT ![c] = o]
  /\ pc' = [pc EXCEPT ![c] = "finally"]
  /\ UNCHANGED <<nonPoolVars, recreate, poolVars, chosen, err, waited, leaseVars,
                 shutdownVars>>

\* Mutant: the page is released at the end of the try block, not in finally.
ResolveReleaseInTry(c) ==
  /\ pc[c] = "finally"
  /\ releaseCalls' = releaseCalls
  /\ \/ /\ outcome[c] = "return"
        /\ ReleaseStart(c)
        /\ pc' = [pc EXCEPT ![c] = IF isReleased'[c] THEN "exited"
                                                      ELSE "releasing"]
     \/ /\ outcome[c] # "return"
        /\ pc' = [pc EXCEPT ![c] = "exited"]
        /\ UNCHANGED <<tabOpen, isReleased, relPending, callbackRuns,
                       activePagesCount>>
  /\ UNCHANGED <<nonPoolVars, recreate, browsers, browserState, launched, crashes,
                 isShuttingDown, activeCount, queue, chosen, err, waited,
                 outcome, shutdownVars>>

\* The finally block of resolveHLS(): detector.dispose() (its errors are caught),
\* then browserPage.release() is called and awaited, whatever the outcome.
ResolveFinally(c) ==
  /\ pc[c] = "finally"
  /\ releaseCalls' = releaseCalls
  /\ ReleaseStart(c)
  /\ pc' = [pc EXCEPT ![c] = IF isReleased'[c] THEN "exited" ELSE "releasing"]
  /\ UNCHANGED <<nonPoolVars, recreate, browsers, browserState, launched, crashes,
                 isShuttingDown, activeCount, queue, chosen, err, waited,
                 outcome, shutdownVars>>

NextResolve ==
  \/ \E c \in Resolutions : GetPage(c)
  \/ \E c \in Resolutions : LaunchDone(c)
  \/ \E c \in Resolutions : NewPageDone(c)
  \/ \E c \in Resolutions : ConfigureDone(c)
  \/ \E c \in Resolutions : Throw(c)
  \/ \E c \in Resolutions : ResolveSetup(c)
  \/ \E c \in Resolutions : ResolveNavigate(c)
  \/ \E c \in Resolutions : ResolveFinally(c)
  \/ \E c \in Resolutions : ReleaseFinish(c)
  \/ \E b \in BrowserIds : Disconnect(b)
  \/ Shutdown
  \/ \E b \in BrowserIds : BrowserCloseDone(b)
  \/ ShutdownFinish

SpecResolve == Init /\ [][NextResolve]_vars

\* ------------------------------------------------------ shutdown of a pool of
\* several browsers

InitShutdown ==
  /\ PoolInit(ShutdownPoolSize) /\ ActivationIdle /\ NavIdle
  /\ IcIdle /\ DetIdle /\ StoreIdle /\ AuxIdle

NextShutdown ==
  \/ \E c \in ShutdownCallers : GetPage(c)
  \/ \E c \in ShutdownCallers : LaunchDone(c)
  \/ \E c \in ShutdownCallers : NewPageDone(c)
  \/ \E c \in ShutdownCallers : ConfigureDone(c)
  \/ \E c \in ShutdownCallers : Throw(c)
  \/ \E c \in ShutdownCallers : ReleaseCall(c)
  \/ \E c \in ShutdownCallers : ReleaseFinish(c)
  \/ \E b \in BrowserIds : Disconnect(b)
  \/ Shutdown
  \/ \E b \in BrowserIds : BrowserCloseDone(b)
  \/ ShutdownFinish

SpecShutdown == InitShutdown /\ [][NextShutdown]_vars

\* ------------------------------------------------------ properties of the pool

\* Callers whose getPage() has returned a lease.
Handed == {c \in Callers : pc[c] \in {"leased", "navigating", "finally",
                                      "releasing", "exited"}}
\* Leases handed out and not yet released.
Outstanding == {c \in Handed : ~isReleased[c]}

\* C1: the number of leases handed out and not yet released never exceeds
\* maxConcurrentPages.
C1_OutstandingWithinLimit == Cardinality(Outstanding) <= MaxConcurrentPages

\* C3: outside shutdown no getPage() rejects with 'No available browser in pool'.
C3_NoBrowserErrorOnlyInShutdown ==
  \A c \in Callers : err[c] = "NoAvailableBrowser" => isShuttingDown

\* C4: however many release() calls are made on a lease, sequential or
\* overlapping, the pool's releaseCallback runs at most once for it.
C4_ReleasedOnce == \A c \in Callers : callbackRuns[c] <= 1

\* C5: once shutdown() has been invoked no further getPage() hands a lease.
C5_NoLeaseAfterShutdown == [][isShuttingDown => Handed' \subseteq Handed]_vars

\* C6: no browser is closed by shutdown() while a lease's tab on it is open.
C6_NoCloseUnderOpenTab ==
  [][\A b \in BrowserIds :
       (browserState[b] # "closed" /\ browserState'[b] = "closed")
         => ~\E c \in Outstanding : chosen[c] = b /\ tabOpen[c]]_vars

C8_CloseFailureIsolated ==
  closeFailed # {} =>
    /\ shutdownPc \in {"closing", "done"}
    /\ (shutdownPc = "closing" /\ closePending = {}) => ENABLED ShutdownFinish
    /\ shutdownPc = "done" => (closePending = {} /\ browsers = <<>>)

\* shutdown() completed although one close() threw, and another browser of the
\* pool was closed.
C8_Witness == shutdownPc = "done" /\ closeFailed # {} /\ closeOk # {}

\* A caller's fn has been started by p-limit.
Started(c) == pc[c] \notin {"idle", "queued", "abandoned", "rejected"}

\* C9 (as claimed): of two callers that both had to wait, the one that arrived
\* first receives its lease no later than the other.
C9_LeaseInArrivalOrder ==
  \A a, b \in waited :
    (a < b /\ b \in Handed) => (a \in Handed \/ pc[a] = "failed")

\* C9 (amended): of two callers that both had to wait, the one that arrived
\* first is admitted (its page creation starts) no later than the other.
C9_AdmittedInArrivalOrder ==
  \A a, b \in waited : (a < b /\ Started(b)) => Started(a)

\* Two callers waited and both hold a lease.
C9_Witness == \E a, b \in waited : a < b /\ a \in Handed /\ b \in Handed

\* ------------------------------------------------------ resolveHLS and
\* navigateAndDetect in detail (one resolution, caller 1)

navIn == <<reqUrl, allowlist, clickRetries, pageDom>>
navEnv == <<navigated, hasCandidate, arrivedAt, listenersRemoved, pageRequests,
            undecided>>

\* The step of the chain the resolution is at.
Stage == IF navPc = "wait" THEN waitSite ELSE navPc

\* Control moves to step p.
Goto(p) == navPc' = p /\ UNCHANGED <<waitSite, waitLeft>>

\* waitForStreamDetection() is called after step site.
GoWait(site) == navPc' = "wait" /\ waitSite' = site /\ waitLeft' = MaxPolls

\* Mutant: the immediate checks after navigation are not made.
ImmediateCheckSkipped(found) == FALSE

\* The early return of lines 354 and 367: detector.getCandidates().length > 0.
ImmediateCheck(found) == found

\* Mutant: a failed click or evaluate is rethrown.
OnInteractionErrorRethrown == "throw"

\* What the try/catch around every click and evaluate of the chain does with an
\* error: it is logged and the chain goes on.
OnInteractionError == "continue"

\* A click or evaluate threw or timed out; cont is where its catch block leads.
Failed(cont) ==
  /\ interactionFailed' = TRUE
  /\ IF OnInteractionError = "continue"
       THEN cont /\ navThrew' = navThrew
       ELSE Goto("dispose") /\ navThrew' = "interaction"

\* What waitForStreamDetection() returns when it sees a candidate (line 1130).
DetectedStrategy == "none"

\* configurePage() has installed the pool's page.on('request') handler.
PoolListenerInstalled(c) == pc[c] \in {"leased", "releasing", "exited"}

\* The page's requests are answered by the handler configurePage() installed.
Intercepted == PoolListenerInstalled(1) /\ ~listenersRemoved

\* Line 128: validateRequest() returns or throws; a throw leaves resolveHLS()
\* through catch and a finally that has nothing to dispose or release.
NavValidate ==
  /\ navPc = "start"
  /\ IF ValidateRequest(reqUrl, allowlist)
       THEN Goto("getPage") /\ navThrew' = navThrew
       ELSE Goto("threw") /\ navThrew' = "validation"
  /\ UNCHANGED <<navIn, navEnv, detectedAt, successfulStrategy, clicksPerformed,
                 interactions, interactionFailed, elemsLeft, manifestsFound,
                 cache, nonNavVars>>

\* Line 145: browserPool.getPage() is called.
NavGetPage == navPc = "getPage" /\ GetPage(1)

\* Lines 146-149: the lease was returned, the detector is armed.
NavSetup ==
  /\ navPc = "getPage"
  /\ pc[1] = "leased"
  /\ Goto("goto")
  /\ UNCHANGED <<navIn, navEnv, detectedAt, successfulStrategy, clicksPerformed,
                 interactions, interactionFailed, elemsLeft, navThrew,
                 manifestsFound, cache, nonNavVars>>

\* Lines 239-351: the page is prepared and navigateTo() settles; a failure is
\* rethrown to resolveHLS(), whose finally disposes and releases.
NavGoto ==
  /\ navPc = "goto"
  /\ \/ /\ navigated' = TRUE
        /\ Goto("check1")
        /\ navThrew' = navThrew
     \/ /\ navigated' = navigated
        /\ Goto("dispose")
        /\ navThrew' = "navigation"
  /\ UNCHANGED <<navIn, hasCandidate, arrivedAt, listenersRemoved, pageRequests,
                 undecided, detectedAt, successfulStrategy, clicksPerformed,
                 interactions, interactionFailed, elemsLeft, manifestsFound,
                 cache, nonNavVars>>

\* Lines 354-376: the two immediate checks, each after a 1 s wait.
NavCheck ==
  /\ navPc \in {"check1", "check2"}
  /\ IF ImmediateCheck(hasCandidate)
       THEN /\ successfulStrategy' = "none"
            /\ clicksPerformed' = 0
            /\ Goto("return")
       ELSE /\ UNCHANGED <<successfulStrategy, clicksPerformed>>
            /\ Goto(IF navPc = "check1" THEN "check2" ELSE "click1")
  /\ UNCHANGED <<navIn, navEnv, detectedAt, interactions, interactionFailed,
                 elemsLeft, navThrew, manifestsFound, cache, nonNavVars>>

\* Lines 401-443: the click at the viewport centre and, with clickRetries > 0,
\* the second one; then waitForStreamDetection(shortWait) (line 453).
NavCenterClick ==
  /\ navPc \in {"click1", "click2"}
  /\ interactions' = interactions \cup {"center-click"}
  /\ LET cont == IF navPc = "click1" /\ clickRetries > 0
                   THEN Goto("click2") ELSE GoWait("center")
     IN \/ /\ clicksPerformed' = clicksPerformed + 1
           /\ cont
           /\ UNCHANGED <<interactionFailed, navThrew>>
        \/ /\ clicksPerformed' = clicksPerformed
           /\ Failed(cont)
  /\ UNCHANGED <<navIn, navEnv, detectedAt, successfulStrategy, elemsLeft,
                 manifestsFound, cache, nonNavVars>>

\* One iteration of the loop of waitForStreamDetection(): a candidate ends the
\* wait with DetectedStrategy and the chain is left; otherwise the loop sleeps
\* for checkInterval.
NavPoll ==
  /\ navPc = "wait"
  /\ waitLeft > 0
  /\ IF hasCandidate
       THEN /\ detectedAt' = waitSite
            /\ successfulStrategy' = DetectedStrategy
            /\ navPc' = "return"
            /\ waitLeft' = 0
            /\ UNCHANGED waitSite
       ELSE /\ waitLeft' = waitLeft - 1
            /\ UNCHANGED <<detectedAt, successfulStrategy, navPc, waitSite>>
  /\ UNCHANGED <<navIn, navEnv, clicksPerformed, interactions,
                 interactionFailed, elemsLeft, navThrew, manifestsFound, cache,
                 nonNavVars>>

\* The loop of waitForStreamDetection() ends on its deadline: null is returned
\* and the chain goes on with the step after waitSite.
NavWaitTimeout ==
  /\ navPc = "wait"
  /\ waitLeft = 0
  /\ navPc' = CASE waitSite = "center" -> "overlay"
                [] waitSite = "overlay" -> "play"
                [] waitSite = "play" -> "playClick"
                [] waitSite = "iframe" -> "iframeClick"
                [] waitSite = "final" -> "return"
  /\ UNCHANGED <<waitSite, waitLeft>>
  /\ UNCHANGED <<navIn, navEnv, detectedAt, successfulStrategy, clicksPerformed,
                 interactions, interactionFailed, elemsLeft, navThrew,
                 manifestsFound, cache, nonNavVars>>

\* Lines 466-546: the in-page evaluate that clicks every visible overlay; when
\* it closed one, a click at the centre and waitForStreamDetection(1500).
NavOverlay ==
  /\ navPc = "overlay"
  /\ \/ /\ Failed(Goto("play"))
        /\ UNCHANGED <<interactions, clicksPerformed>>
     \/ /\ pageDom.overlays = 0
        /\ Goto("play")
        /\ UNCHANGED <<interactions, clicksPerformed, interactionFailed,
                       navThrew>>
     \/ /\ pageDom.overlays > 0
        /\ interactions' = interactions \cup {"overlay-close", "center-click"}
        /\ \/ /\ clicksPerformed' = clicksPerformed + 1
              /\ GoWait("overlay")
              /\ UNCHANGED <<interactionFailed, navThrew>>
           \/ /\ clicksPerformed' = clicksPerformed
              /\ Failed(Goto("play"))
  /\ UNCHANGED <<navIn, navEnv, detectedAt, successfulStrategy, elemsLeft,
                 manifestsFound, cache, nonNavVars>>

\* Lines 550-602: the in-page evaluate that lists the play elements.
NavPlayEval ==
  /\ navPc = "play"
  /\ \/ /\ Failed(Goto("iframe"))
        /\ UNCHANGED elemsLeft
     \/ /\ elemsLeft' = pageDom.plays
        /\ Goto("playClick")
        /\ UNCHANGED <<interactionFailed, navThrew>>
  /\ UNCHANGED <<navIn, navEnv, detectedAt, successfulStrategy, clicksPerformed,
                 interactions, manifestsFound, cache, nonNavVars>>

\* Lines 610-648: the next play element is clicked and
\* waitForStreamDetection(1800) follows; a failed click goes to the next
\* element; after the last one the iframes are tried.
NavPlayClick ==
  /\ navPc = "playClick"
  /\ IF elemsLeft = 0
       THEN /\ Goto("iframe")
            /\ UNCHANGED <<elemsLeft, interactions, clicksPerformed,
                           interactionFailed, navThrew>>
       ELSE /\ elemsLeft' = elemsLeft - 1
            /\ interactions' = interactions \cup {"play-click"}
            /\ \/ /\ clicksPerformed' = clicksPerformed + 1
                  /\ GoWait("play")
                  /\ UNCHANGED <<interactionFailed, navThrew>>
               \/ /\ clicksPerformed' = clicksPerformed
                  /\ Failed(Goto("playClick"))
  /\ UNCHANGED <<navIn, navEnv, detectedAt, successfulStrategy, manifestsFound,
                 cache, nonNavVars>>

\* Lines 658-680: the in-page evaluate that lists the largest iframes.
NavFramesEval ==
  /\ navPc = "iframe"
  /\ \/ /\ Failed(Goto("final"))
        /\ UNCHANGED elemsLeft
     \/ /\ elemsLeft' = pageDom.frames
        /\ Goto("iframeClick")
        /\ UNCHANGED <<interactionFailed, navThrew>>
  /\ UNCHANGED <<navIn, navEnv, detectedAt, successfulStrategy, clicksPerformed,
                 interactions, manifestsFound, cache, nonNavVars>>

\* Lines 682-713: the next iframe is clicked and waitForStreamDetection(1200)
\* follows; a failed click goes to the next iframe.
NavFrameClick ==
  /\ navPc = "iframeClick"
  /\ IF elemsLeft = 0
       THEN /\ Goto("final")
            /\ UNCHANGED <<elemsLeft, interactions, clicksPerformed,
                           interactionFailed, navThrew>>
       ELSE /\ elemsLeft' = elemsLeft - 1
            /\ interactions' = interactions \cup {"iframe-click"}
            /\ \/ /\ clicksPerformed' = clicksPerformed + 1
                  /\ GoWait("iframe")
                  /\ UNCHANGED <<interactionFailed, navThrew>>
               \/ /\ clicksPerformed' = clicksPerformed
                  /\ Failed(Goto("iframeClick"))
  /\ UNCHANGED <<navIn, navEnv, detectedAt, successfulStrategy, manifestsFound,
                 cache, nonNavVars>>

\* Lines 730-741: no step was followed by a candidate, the extended wait starts.
NavFinalWait ==
  /\ navPc = "final"
  /\ GoWait("final")
  /\ UNCHANGED <<navIn, navEnv, detectedAt, successfulStrategy, clicksPerformed,
                 interactions, interactionFailed, elemsLeft, navThrew,
                 manifestsFound, cache, nonNavVars>>

\* navigateAndDetect() returns and resolveHLS() goes on (lines 160-181): a
\* strategy that is not null is stored for the hostname, and the manifests are
\* the detector's candidates.
NavReturn ==
  /\ navPc = "return"
  /\ cache' = IF successfulStrategy # "null"
                THEN CacheSet(cache, reqUrl.hostname, successfulStrategy)
                ELSE cache
  /\ manifestsFound' = hasCandidate
  /\ Goto("dispose")
  /\ UNCHANGED <<navIn, navEnv, detectedAt, successfulStrategy, clicksPerformed,
                 interactions, interactionFailed, elemsLeft, navThrew,
                 nonNavVars>>

\* The finally block, lines 188-194: detector.dispose() removes every
\* 'request', 'response' and 'requestfinished' listener of the page and clears
\* the candidates.
NavDispose ==
  /\ navPc = "dispose"
  /\ listenersRemoved' = TRUE
  /\ hasCandidate' = FALSE
  /\ Goto("release")
  /\ UNCHANGED <<navIn, navigated, arrivedAt, pageRequests, undecided,
                 detectedAt, successfulStrategy, clicksPerformed, interactions,
                 interactionFailed, elemsLeft, navThrew, manifestsFound, cache,
                 nonNavVars>>

\* The finally block, lines 195-201: browserPage.release() is called.
NavRelease == navPc = "release" /\ releaseCalls = 0 /\ ReleaseCall(1)

\* page.close() of that release() settles.
NavReleaseDone == navPc = "release" /\ ReleaseFinish(1)

\* The release has been awaited: resolveHLS() returns its response or rethrows.
NavEnd ==
  /\ navPc = "release"
  /\ isReleased[1]
  /\ Goto(IF navThrew = "none" THEN "done" ELSE "threw")
  /\ UNCHANGED <<navIn, navEnv, detectedAt, successfulStrategy, clicksPerformed,
                 interactions, interactionFailed, elemsLeft, navThrew,
                 manifestsFound, cache, nonNavVars>>

\* The page issues a request (manifest: for a manifest URL).  The detector's
\* listener records a first candidate; the pool's handler answers it with
\* continue() or abort(); with request interception on and no handler the
\* request gets no decision.
PageRequest(manifest) ==
  /\ navigated
  /\ tabOpen[1]
  /\ pageRequests < MaxPageRequests
  /\ pageRequests' = pageRequests + 1
  /\ IF manifest /\ ~listenersRemoved /\ ~hasCandidate
       THEN hasCandidate' = TRUE /\ arrivedAt' = Stage
       ELSE UNCHANGED <<hasCandidate, arrivedAt>>
  /\ undecided' = IF Intercepted THEN undecided ELSE undecided + 1
  /\ UNCHANGED <<navIn, navigated, listenersRemoved, navPc, waitSite, waitLeft,
                 detectedAt, successfulStrategy, clicksPerformed, interactions,
                 interactionFailed, elemsLeft, navThrew, manifestsFound, cache,
                 nonNavVars>>

InitNavigate ==
  /\ PoolInit(BrowserPoolSize)
  /\ ~recreate
  /\ cache \in PriorCaches
  /\ actDomain = "a.example" /\ actNeed = 0 /\ actFailAt = 0 /\ actPc = "done"
  /\ actStrategies = <<>> /\ actIdx = 0 /\ actTry = 0 /\ actClicks = 0
  /\ actResult = "null"
  /\ NavInit
  /\ IcIdle /\ DetIdle /\ StoreIdle /\ AuxIdle

NextNavigate ==
  \/ NavValidate
  \/ NavGetPage
  \/ NewPageDone(1)
  \/ ConfigureDone(1)
  \/ NavSetup
  \/ NavGoto
  \/ NavCheck
  \/ NavCenterClick
  \/ NavPoll
  \/ NavWaitTimeout
  \/ NavOverlay
  \/ NavPlayEval
  \/ NavPlayClick
  \/ NavFramesEval
  \/ NavFrameClick
  \/ NavFinalWait
  \/ NavReturn
  \/ NavDispose
  \/ NavRelease
  \/ NavReleaseDone
  \/ NavEnd
  \/ \E m \in BOOLEAN : PageRequest(m)

SpecNavigate == InitNavigate /\ [][NextNavigate]_vars

\* The resolution has left navigateAndDetect() with a result.
Returned == navPc \in {"dispose", "release", "done"} /\ navThrew = "none"

\* C11: a candidate that the detector holds at an immediate check after
\* navigation ends the resolution with strategy none and no interaction: no
\* click of any kind, no overlay dismissal, clicksPerformed = 0.
C11_ImmediateCandidateNoInteraction ==
  (arrivedAt \in {"check1", "check2"} /\ navPc \notin {"check1", "check2"})
    => /\ interactions = {}
       /\ clicksPerformed = 0
       /\ navPc # "return" => successfulStrategy = "none"
       /\ navPc \in {"return", "dispose", "release", "done"}

\* A page whose player starts by itself was resolved.
C11_Witness == arrivedAt = "check1" /\ navPc = "done" /\ manifestsFound

\* The strategy of a step of the chain.
StepStrategy(site) ==
  CASE site = "overlay" -> "overlay-close"
    [] site = "play" -> "play-elements"
    [] OTHER -> successfulStrategy

\* C12 (as claimed): a candidate first detected after a fallback step makes
\* that step's strategy the recorded one, and the entry cached for the domain;
\* after an overlay dismissal that is overlay-close.
C12_RecordsStepStrategy ==
  (Returned /\ detectedAt \in {"overlay", "play"} /\ arrivedAt = detectedAt)
    => /\ successfulStrategy = StepStrategy(detectedAt)
       /\ cache[reqUrl.hostname] = StepStrategy(detectedAt)

\* C13 (as claimed): a resolution that ends with a detected candidate leaves
\* the recorded strategy as the cache entry of the page's domain.
C13_CacheHoldsRecordedStrategy ==
  (navPc = "done" /\ manifestsFound)
    => /\ successfulStrategy # "null"
       /\ cache[reqUrl.hostname] = successfulStrategy

\* C14: a request that fails validation never touches the pool: no getPage()
\* call, no tab, the pool's counters and queue as they were.
C14_InvalidRequestLeavesPool ==
  ~(IsValidUrl(reqUrl) /\ IsDomainAllowed(reqUrl, allowlist))
    => /\ pc[1] = "idle"
       /\ ~tabOpen[1]
       /\ activeCount = 0 /\ activePagesCount = 0 /\ queue = <<>>
       /\ navPc \in {"start", "threw"}
       /\ navPc = "threw" => navThrew = "validation"

\* A request for a host that is not on the allowlist was rejected.
C14_Witness ==
  /\ navPc = "threw" /\ navThrew = "validation"
  /\ IsValidUrl(reqUrl) /\ allowlist # {}

\* C15: a failed click or evaluate never makes the resolution throw, and the
\* step in which it fails hands over to a later step of the chain (in a loop
\* over elements: to the next element).
C15_InteractionErrorsNotFatal ==
  /\ [](navThrew # "interaction")
  /\ [][(~interactionFailed /\ interactionFailed')
          => /\ navPc' \notin {"dispose", "threw"}
             /\ (navPc' # navPc \/ elemsLeft' < elemsLeft)]_vars

\* A click failed and the resolution still returned a response.
C15_Witness ==
  interactionFailed /\ navPc = "done" /\ "play-click" \in interactions

\* C17 (as claimed): every request the page issues gets a decision of the
\* interception handler.
C17_EveryRequestDecided == undecided = 0

\* ------------------------------------------------------ RequestInterceptor

MaxRules == 3             \* rules registered in one interceptor
MaxInitialRules == 2      \* rules passed to the constructor (config.rules)
MaxPriority == 2          \* priorities are 1..MaxPriority

\* A rule as one request sees it: its priority, what test(request) does and the
\* action handle(request) returns.
RuleShapes ==
  [priority : 1..MaxPriority, test : {"yes", "no", "throws"},
   action : {"continue", "abort", "modify"}]

\* The rule of shape sh registered under name n.
Rule(n, sh) ==
  [name |-> n, priority |-> sh.priority, test |-> sh.test, action |-> sh.action]

\* Mutant: a sort that puts a rule before the rules of equal priority.
InsertBeforeTies(r, s) ==
  LET k == Cardinality({i \in 1..Len(s) : s[i].priority > r.priority})
  IN SubSeq(s, 1, k) \o <<r>> \o SubSeq(s, k + 1, Len(s))

\* rules.sort((a, b) => b.priority - a.priority) after r was pushed onto the
\* sorted list s: the sort is stable, r lands after the rules of priority >= its
\* own.
InsertSorted(r, s) ==
  LET k == Cardinality({i \in 1..Len(s) : s[i].priority >= r.priority})
  IN SubSeq(s, 1, k) \o <<r>> \o SubSeq(s, k + 1, Len(s))

RECURSIVE SortDesc(_)
\* config.rules.sort(...) of the constructor: stable, descending priority.
SortDesc(s) ==
  IF s = <<>> THEN <<>>
  ELSE InsertSorted(s[Len(s)], SortDesc(SubSeq(s, 1, Len(s) - 1)))

RECURSIVE Decide(_)
\* The loop of handleRequest(): the first matching rule that returns ABORT
\* aborts the request, one that returns MODIFY continues it at once, CONTINUE
\* goes to the next rule; an exception of test() or handle() is caught and the
\* request is continued; with no rule left the request is continued.
Decide(rs) ==
  IF rs = <<>> THEN [action |-> "continue", rule |-> 0]
  ELSE LET r == Head(rs) IN
       IF r.test = "throws" THEN [action |-> "continue", rule |-> 0]
       ELSE IF r.test = "yes" /\ r.action = "abort"
         THEN [action |-> "abort", rule |-> r.name]
       ELSE IF r.test = "yes" /\ r.action = "modify"
         THEN [action |-> "continue", rule |-> 0]
       ELSE Decide(Tail(rs))

\* new RequestInterceptor({ rules }): any list of up to MaxInitialRules rules.
IcInit ==
  /\ icRegistered \in
       UNION {{[i \in 1..n |-> Rule(i, f[i])] : f \in [1..n -> RuleShapes]} :
                n \in 0..MaxInitialRules}
  /\ icRules = SortDesc(icRegistered)
  /\ icResult = NoDecision

\* addRule(rule).
IcAddRule(sh) ==
  /\ icResult = NoDecision
  /\ Len(icRegistered) < MaxRules
  /\ LET used == {icRegistered[i].name : i \in 1..Len(icRegistered)}
         n == CHOOSE m \in 1..MaxRules :
                m \notin used /\ \A o \in 1..MaxRules : o \notin used => m <= o
     IN /\ icRegistered' = Append(icRegistered, Rule(n, sh))
        /\ icRules' = InsertSorted(Rule(n, sh), icRules)
  /\ UNCHANGED <<icResult, nonIcVars>>

\* removeRule(name).
IcRemoveRule(n) ==
  /\ icResult = NoDecision
  /\ \E i \in 1..Len(icRegistered) : icRegistered[i].name = n
  /\ icRules' = SelectSeq(icRules, LAMBDA r : r.name # n)
  /\ icRegistered' = SelectSeq(icRegistered, LAMBDA r : r.name # n)
  /\ UNCHANGED <<icResult, nonIcVars>>

\* handleRequest(request).
IcHandleRequest ==
  /\ icResult = NoDecision
  /\ icResult' = Decide(icRules)
  /\ UNCHANGED <<icRules, icRegistered, nonIcVars>>

InitIntercept ==
  /\ PoolInit(BrowserPoolSize) /\ ~recreate /\ ActivationIdle /\ NavIdle
  /\ DetIdle /\ StoreIdle /\ AuxIdle
  /\ IcInit

NextIntercept ==
  \/ \E sh \in RuleShapes : IcAddRule(sh)
  \/ \E n \in 1..MaxRules : IcRemoveRule(n)
  \/ IcHandleRequest

SpecIntercept == InitIntercept /\ [][NextIntercept]_vars

\* The registered rules and the order the pipeline is to evaluate them in:
\* descending priority, ties in registration order.
Registered == {icRegistered[i] : i \in 1..Len(icRegistered)}
Pos(r) == CHOOSE i \in 1..Len(icRegistered) : icRegistered[i] = r
Precedes(a, b) ==
  \/ a.priority > b.priority
  \/ a.priority = b.priority /\ Pos(a) < Pos(b)
First(S) == CHOOSE r \in S : \A o \in S \ {r} : Precedes(r, o)

\* The matching rules whose decision is abort.
Aborting == {r \in Registered : r.test = "yes" /\ r.action = "abort"}
\* The rules that end the evaluation: a matching rule that aborts or modifies,
\* a rule that throws.
Ending ==
  {r \in Registered :
     r.test = "throws" \/ (r.test = "yes" /\ r.action \in {"abort", "modify"})}

\* C16 (as claimed): for any rule set the first matching rule whose decision
\* is abort wins and the request is aborted; with no such rule it is allowed.
C16_FirstAbortWins ==
  icResult # NoDecision =>
    IF Aborting # {}
      THEN icResult = [action |-> "abort", rule |-> First(Aborting).name]
      ELSE icResult.action = "continue"

\* C16 (amended): the rules are evaluated in descending priority, ties in
\* registration order, up to the first rule that ends the evaluation; the
\* request is aborted by that rule when it matches and aborts, and allowed
\* when it modifies or throws or when no rule ends the evaluation.
C16_FirstEndingRuleDecides ==
  icResult # NoDecision =>
    IF Ending # {} /\ First(Ending) \in Aborting
      THEN icResult = [action |-> "abort", rule |-> First(Ending).name]
      ELSE icResult.action = "continue"

\* Two matching rules of equal priority, the first registered aborts and the
\* second allows: the request was aborted by the first.
C16_Witness ==
  /\ icResult.action = "abort"
  /\ \E a, b \in Registered :
       /\ a.priority = b.priority /\ Pos(a) < Pos(b)
       /\ a.test = "yes" /\ a.action = "abort"
       /\ b.test = "yes" /\ b.action = "continue"
       /\ icResult.rule = a.name

\* ------------------------------------------------------ HLSDetector
\* Two revisions are in the repository: detectors/hls-detector.ts, whose
\* addCandidate() ignores a URL it already holds, and the one kept in
\* parsers/m3u8.parser.ts, whose addCandidate() merges.  detMerging selects.

MaxObservations == 4      \* page events one detector handles

\* A URL that matches the URL heuristics and one that does not.
Urls == {"v.m3u8", "v.bin"}
ContentTypes == {"", "application/vnd.apple.mpegurl", "text/html"}
Undefined == "undefined"
\* A header extractRelevantHeaders() keeps and one it drops; "" is absent.
HeaderNames == {"x-token", "server"}
HeaderValues == {"t1", "t2"}
Headers == [HeaderNames -> HeaderValues \cup {""}]
NoHeaders == [n \in HeaderNames |-> ""]

\* hlsUrlPatterns.some(pattern => u.includes(pattern)).
IsHLSUrl(url) == url = "v.m3u8"
\* hlsContentTypes.some(type => ct.includes(type)).
IsHLSContentType(ct) == ct = "application/vnd.apple.mpegurl"
\* isHlsManifest(url, contentType) / isHLSCandidate(url, contentType).
IsHlsManifest(url, ct) == IsHLSUrl(url) \/ IsHLSContentType(ct)

\* extractRelevantHeaders(): the named headers and the x- headers.
ExtractRelevantHeaders(h) ==
  [n \in HeaderNames |-> IF n = "x-token" THEN h[n] ELSE ""]

\* { ...a, ...b }: the keys of b override those of a.
Spread(a, b) == [n \in HeaderNames |-> IF b[n] # "" THEN b[n] ELSE a[n]]

\* Map.has, Map.get.
MapHas(m, k) == \E i \in 1..Len(m) : m[i].url = k
MapGet(m, k) == m[CHOOSE i \in 1..Len(m) : m[i].url = k]

\* Mutant: a set() that always adds an entry.
MapSetAppends(m, k, v) == Append(m, v)

\* Map.set: the value of an existing key is replaced, a new key is appended.
MapSet(m, k, v) ==
  IF MapHas(m, k)
    THEN [i \in 1..Len(m) |-> IF m[i].url = k THEN v ELSE m[i]]
    ELSE Append(m, v)

\* A field of the candidate object held by the map is assigned.
Mutate(m, k, v) == [i \in 1..Len(m) |-> IF m[i].url = k THEN v ELSE m[i]]

\* addCandidate(): hls-detector.ts returns when the URL is known; the
\* m3u8.parser.ts revision merges headers (spread) and fills contentType (??).
AddCandidate(m, c) ==
  IF MapHas(m, c.url)
    THEN IF detMerging
           THEN LET e == MapGet(m, c.url) IN
                Mutate(m, c.url,
                       [e EXCEPT !.headers = Spread(e.headers, c.headers),
                                 !.contentType = IF @ = Undefined
                                                   THEN c.contentType ELSE @])
           ELSE m
    ELSE MapSet(m, c.url, c)

\* A new detector of either revision.
DetInit ==
  /\ candidates = <<>>
  /\ detMerging \in BOOLEAN
  /\ detObs = 0
  /\ seenReq = {}
  /\ seenResp = {}

\* handleRequest(): a request whose URL looks like a manifest is a candidate.
\* ct is the request's content-type header ("" when absent), h its headers.
DetRequest(url, ct, h) ==
  /\ detObs < MaxObservations
  /\ detObs' = detObs + 1
  /\ IF IsHLSUrl(url)
       THEN /\ candidates' =
                 AddCandidate(candidates,
                   IF detMerging
                     THEN [url |-> url,
                           contentType |-> IF ct = "" THEN Undefined ELSE ct,
                           headers |-> ExtractRelevantHeaders(h),
                           source |-> "request"]
                     ELSE [url |-> url, contentType |-> ct,
                           headers |-> NoHeaders, source |-> "response"])
            /\ seenReq' = seenReq \cup {url}
       ELSE UNCHANGED <<candidates, seenReq>>
  /\ UNCHANGED <<detMerging, seenResp, nonDetVars>>

\* handleResponse(): a response with a 2xx/3xx status whose URL or content type
\* is a manifest's is a candidate.  h: the headers of its request.
DetResponse(url, status, ct, h) ==
  /\ detObs < MaxObservations
  /\ detObs' = detObs + 1
  /\ IF IsHlsManifest(url, ct) /\ status >= 200 /\ status < 400
       THEN /\ candidates' =
                 AddCandidate(candidates,
                   [url |-> url, contentType |-> ct,
                    headers |-> IF detMerging THEN ExtractRelevantHeaders(h)
                                              ELSE NoHeaders,
                    source |-> "response"])
            /\ seenResp' = seenResp \cup {url}
       ELSE UNCHANGED <<candidates, seenResp>>
  /\ UNCHANGED <<detMerging, seenReq, nonDetVars>>

\* handleRequestFinished(): the candidate of the URL gets the response's
\* content type when it has none, and the response's relevant headers are
\* spread over its headers; then candidates.set(url, candidate).
DetRequestFinished(url, ct, h) ==
  /\ detObs < MaxObservations
  /\ detObs' = detObs + 1
  /\ IF MapHas(candidates, url)
       THEN LET e == MapGet(candidates, url)
                f == [e EXCEPT
                        !.contentType =
                           IF @ \in {"", Undefined} /\ ct # "" THEN ct ELSE @,
                        !.headers = Spread(@, ExtractRelevantHeaders(h))]
            IN candidates' = MapSet(Mutate(candidates, url, f), url, f)
       ELSE UNCHANGED candidates
  /\ UNCHANGED <<detMerging, seenReq, seenResp, nonDetVars>>

InitDetector ==
  /\ PoolInit(BrowserPoolSize) /\ ~recreate /\ ActivationIdle /\ NavIdle
  /\ IcIdle /\ StoreIdle /\ AuxIdle
  /\ DetInit

NextDetector ==
  \/ \E u \in Urls, ct \in ContentTypes, h \in Headers : DetRequest(u, ct, h)
  \/ \E u \in Urls, st \in {200, 404}, ct \in ContentTypes, h \in Headers :
       DetResponse(u, st, ct, h)
  \/ \E u \in Urls, ct \in ContentTypes, h \in Headers :
       DetRequestFinished(u, ct, h)

SpecDetector == InitDetector /\ [][NextDetector]_vars

\* C18: the detector never holds two candidates for one URL, whatever the
\* order of request, response and request-finished observations.
C18_OneCandidatePerUrl ==
  \A i, j \in 1..Len(candidates) :
    candidates[i].url = candidates[j].url => i = j

\* A URL was a candidate both at request time and at response time and its
\* request has finished.
C18_Witness ==
  \E u \in seenReq \cap seenResp :
    MapHas(candidates, u) /\ MapGet(candidates, u).headers # NoHeaders

\* C19 (as claimed): a content type or a header value that a candidate has is
\* never changed by a later observation of the URL.
C19_FieldsNeverOverwritten ==
  [][\A u \in Urls :
       (MapHas(candidates, u) /\ MapHas(candidates', u)) =>
         LET a == MapGet(candidates, u)
             b == MapGet(candidates', u)
         IN /\ a.contentType \notin {"", Undefined}
                 => b.contentType = a.contentType
            /\ \A n \in HeaderNames :
                 a.headers[n] # "" => b.headers[n] = a.headers[n]]_vars

\* ------------------------------------------------------ the strategy cache
\* stores: InMemoryStrategyCache and JsonStrategyCache

MaxStoreOps == 3          \* get/set calls followed

\* The names a resolution stores.
StrategyNames ==
  {ActivationStrategyNames[i] : i \in 1..Len(ActivationStrategyNames)}

\* Mutant: persist() without its try/catch.
OnPersistErrorRethrown == "throw"

\* What persist() does with a failed fs.writeFile: it logs the error.
OnPersistError == "swallow"

\* An initialized store of either kind with any content; the JSON store was
\* loaded from its file.
StoreInit ==
  /\ storeKind \in {"memory", "json"}
  /\ cache \in [Domains -> CacheEntries \cup {NoEntry}]
  /\ cacheFile = IF storeKind = "json" THEN cache
                                       ELSE [d \in Domains |-> NoEntry]
  /\ storeOps = 0
  /\ storeResult = NoCall

\* get(domain).
StoreGet(d) ==
  /\ storeOps < MaxStoreOps
  /\ storeOps' = storeOps + 1
  /\ storeResult' = [op |-> "get", domain |-> d, value |-> CacheGet(d),
                     threw |-> FALSE]
  /\ UNCHANGED <<cache, storeKind, cacheFile, nonStoreVars>>

\* set(domain, strategy): Map.set, and for the JSON store persist(), whose
\* fs.writeFile may fail.
StoreSet(d, s) ==
  /\ storeOps < MaxStoreOps
  /\ storeOps' = storeOps + 1
  /\ cache' = CacheSet(cache, d, s)
  /\ \/ /\ storeKind = "memory"
        /\ cacheFile' = cacheFile
        /\ storeResult' = [op |-> "set", domain |-> d, value |-> s,
                           threw |-> FALSE]
     \/ /\ storeKind = "json"
        /\ cacheFile' = cache'
        /\ storeResult' = [op |-> "set", domain |-> d, value |-> s,
                           threw |-> FALSE]
     \/ /\ storeKind = "json"
        /\ cacheFile' = cacheFile
        /\ storeResult' = [op |-> "set", domain |-> d, value |-> s,
                           threw |-> OnPersistError = "throw"]
  /\ UNCHANGED <<storeKind, nonStoreVars>>

InitStore ==
  /\ PoolInit(BrowserPoolSize) /\ ~recreate /\ NavIdle /\ IcIdle /\ DetIdle
  /\ actDomain = "a.example" /\ actNeed = 0 /\ actFailAt = 0 /\ actPc = "done"
  /\ actStrategies = <<>> /\ actIdx = 0 /\ actTry = 0 /\ actClicks = 0
  /\ actResult = "null"
  /\ StoreInit /\ AuxIdle

NextStore ==
  \/ \E d \in Domains : StoreGet(d)
  \/ \E d \in Domains, s \in StrategyNames : StoreSet(d, s)

SpecStore == InitStore /\ [][NextStore]_vars

\* C20: no get() or set() of either store throws; get() of a domain without
\* an entry returns null; set() leaves the entry in memory also when the file
\* write failed.
C20_CacheOpsNeverThrow ==
  /\ ~storeResult.threw
  /\ storeResult.op = "get" =>
       /\ storeResult.value = cache[storeResult.domain]
       /\ cache[storeResult.domain] = NoEntry => storeResult.value = NoEntry
  /\ storeResult.op = "set" => cache[storeResult.domain] = storeResult.value

\* A set() of the JSON store whose file write failed has returned.
C20_Witness ==
  /\ storeKind = "json"
  /\ storeResult.op = "set"
  /\ cacheFile # cache
  /\ \E d \in Domains : cache[d] = NoEntry

\* ------------------------------------------------------------ M3U8Parser
\* parsers/m3u8.parser.ts, lines 4-263.  A manifest text is the row of its
\* lines, as content.split('\n') cuts it; a line is a row of lexemes: a tag
\* name up to and including its ':', then maximal runs of the characters
\* [A-Z0-9-], maximal runs of other characters, and the single characters
\* '=', ',', '"' and 'x'.  An optional field of a result is a set: {} when the
\* field is absent, {v} when it holds v.

MaxLines == 4

\* isNaN(n): the one value Number, parseInt and parseFloat give to a text
\* that is no number.
NaN == -1

\* The lines of the manifests of the parser's tests (part_002, lines 57-125),
\* with the variations the parser's branches tell apart.
ManifestLines ==
  { <<"#EXTM3U">>,
    <<"#EXT-X-STREAM-INF:", "BANDWIDTH", "=", "1280000", ",",
      "RESOLUTION", "=", "854", "x", "480", ",",
      "CODECS", "=", "\"", "avc1.42e01e", ",", "mp4a.40.2", "\"", ",",
      "FRAME-RATE", "=", "30.000">>,
    <<"#EXT-X-STREAM-INF:", "BANDWIDTH", "=", "2560000", ",",
      "RESOLUTION", "=", "1280", "x">>,
    <<"#EXT-X-STREAM-INF:", "RESOLUTION", "=", "HD", ",",
      "CODECS", "=", "\"", "avc1.64001f", "\"">>,
    <<"low.m3u8">>,
    <<"https://cdn.example.com/medium.m3u8">>,
    <<"This is not M3U8">>,
    <<"#EXT-X-ENDLIST">>,
    <<" ", "#EXT-X-ENDLIST", " ">>,
    <<"#EXT-X-KEY:", "METHOD", "=", "AES-128", ",",
      "URI", "=", "\"", "https://example.com/key.bin", "\"">>,
    <<"#EXT-X-KEY:", "METHOD", "=", "SAMPLE-AES-CTR", ",",
      "URI", "=", "\"", "key.bin", "\"">>,
    <<"#EXT-X-PART:", "URI", "=", "\"", "part0.m4s", "\"">>,
    <<"#EXT-X-MEDIA:", "URI", "=", "\"", "audio.m3u8", "\"">>,
    <<>> }

\* String.prototype.startsWith and includes, on the lexeme a text begins
\* with, for the literals the parser asks about.
LexStartsWith(lex, p) ==
  LET tags == {"#EXTM3U", "#EXT-X-STREAM-INF:", "#EXT-X-ENDLIST",
               "#EXT-X-KEY:", "#EXT-X-PART:", "#EXT-X-MEDIA:"}
  IN \/ lex = p
     \/ p = "#" /\ lex \in tags
     \/ p = "#EXT-X-" /\ lex \in tags \ {"#EXTM3U"}
     \/ p = "#EXT-X-STREAM-INF" /\ lex = "#EXT-X-STREAM-INF:"
     \/ p = "#EXT-X-PART" /\ lex = "#EXT-X-PART:"
     \/ p = "https://" /\ lex \in {"https://cdn.example.com/medium.m3u8",
                                   "https://example.com/key.bin"}

StartsWith(line, p) == line # <<>> /\ LexStartsWith(line[1], p)

Includes(line, p) ==
  \E i \in 1..Len(line) :
    \/ LexStartsWith(line[i], p)
    \/ p = ".m3u8" /\ line[i] \in {"low.m3u8", "audio.m3u8",
                                   "https://cdn.example.com/medium.m3u8"}

TrimSkipped(line) == line

\* Line 9: line.trim() drops the white space at both ends.
Trim(line) ==
  LET inked == {i \in 1..Len(line) : line[i] # " "}
  IN IF inked = {} THEN <<>>
     ELSE SubSeq(line, CHOOSE i \in inked : \A j \in inked : i <= j,
                       CHOOSE i \in inked : \A j \in inked : i >= j)

\* Lines 161-176: the loop of regex.exec with /([A-Z0-9-]+)=([^,]+)/g over
\* the attribute part.  A match is the leftmost run of [A-Z0-9-] that is
\* followed by '=' and at least one character other than ','; its value runs
\* to the next ',' whatever it holds; the search resumes after the value.
RECURSIVE ParseAttributes(_, _)
ParseAttributes(part, attributes) ==
  LET names == {"BANDWIDTH", "RESOLUTION", "CODECS", "FRAME-RATE", "METHOD",
                "URI", "AES-128", "SAMPLE-AES-CTR", "HD", "854", "480",
                "1280", "1280000", "2560000"}
      starts == {i \in 1..(Len(part) - 2) :
                   part[i] \in names /\ part[i + 1] = "=" /\ part[i + 2] # ","}
  IN IF starts = {} THEN attributes
     ELSE LET i == CHOOSE k \in starts : \A j \in starts : k <= j
              stops == {j \in (i + 2)..Len(part) : part[j] = ","}
              end == IF stops = {} THEN Len(part)
                     ELSE (CHOOSE k \in stops : \A j \in stops : k <= j) - 1
              match2 == SubSeq(part, i + 2, end)
              value == IF StartsWith(match2, "\"") /\ match2[Len(match2)] = "\""
                       THEN SubSeq(match2, 2, Len(match2) - 1)
                       ELSE match2
          IN ParseAttributes(SubSeq(part, end + 1, Len(part)),
                             (part[i] :> value) @@ attributes)

\* attributes[key]: the empty text when the key is missing (both are falsy).
Attr(attributes, key) ==
  IF key \in DOMAIN attributes THEN attributes[key] ELSE <<>>

\* value.replace(/"/g, '')
Unquote(value) == SelectSeq(value, LAMBDA lex : lex # "\"")

\* The value of the decimal numerals of the lines above.
Decimal ==
  [lex \in {"854", "480", "1280", "1280000", "2560000"} |->
     CASE lex = "854" -> 854 [] lex = "480" -> 480 [] lex = "1280" -> 1280
       [] lex = "1280000" -> 1280000 [] lex = "2560000" -> 2560000]

\* Lines 74-109.
ParseStreamInf(line) ==
  LET attributes == ParseAttributes(Tail(line), [k \in {} |-> <<>>])
      \* parseInt(s, 10) and parseFloat(s) read the digits s begins with
      parseInt(s) == IF s[1] \in DOMAIN Decimal THEN Decimal[s[1]] ELSE NaN
      parseFloat(s) == IF s[1] = "30.000" THEN 30 ELSE parseInt(s)
      \* Number(s): 0 for the empty text, the value of a numeral, else NaN
      Number(s) == IF s = <<>> THEN 0
                   ELSE IF Len(s) = 1 /\ s[1] \in DOMAIN Decimal
                        THEN Decimal[s[1]] ELSE NaN
      \* resolutionStr.split('x'): the text before the first 'x' and the
      \* text between it and the second 'x' (or the end)
      xs == {i \in 1..Len(Attr(attributes, "RESOLUTION")) :
               Attr(attributes, "RESOLUTION")[i] = "x"}
      x1 == CHOOSE i \in xs : \A j \in xs : i <= j
      x2 == IF xs = {x1} THEN Len(Attr(attributes, "RESOLUTION")) + 1
            ELSE CHOOSE i \in xs \ {x1} : \A j \in xs \ {x1} : i <= j
      width == IF xs = {} THEN Number(Attr(attributes, "RESOLUTION"))
               ELSE Number(SubSeq(Attr(attributes, "RESOLUTION"), 1, x1 - 1))
      heightDefined == xs # {}
      height == Number(SubSeq(Attr(attributes, "RESOLUTION"), x1 + 1, x2 - 1))
  IN [ bandwidth |-> IF Attr(attributes, "BANDWIDTH") # <<>>
                     THEN {parseInt(Attr(attributes, "BANDWIDTH"))} ELSE {},
       codecs |-> IF Attr(attributes, "CODECS") # <<>>
                  THEN {Unquote(Attr(attributes, "CODECS"))} ELSE {},
       resolution |-> IF /\ Attr(attributes, "RESOLUTION") # <<>>
                         /\ heightDefined
                         /\ width # NaN
                         /\ height # NaN
                      THEN {[width |-> width, height |-> height]} ELSE {},
       frameRate |-> IF /\ Attr(attributes, "FRAME-RATE") # <<>>
                        /\ parseFloat(Attr(attributes, "FRAME-RATE")) # NaN
                     THEN {parseFloat(Attr(attributes, "FRAME-RATE"))} ELSE {},
       uri |-> {} ]

\* Lines 184-195: an absolute URL is kept; a relative one is joined to the
\* base (new URL(url, baseUrl).href, for a base that ends a directory).
ResolveUrl(url, base) ==
  IF StartsWith(url, "http://") \/ StartsWith(url, "https://") THEN url
  ELSE <<base>> \o url

IsRecognizedAlways(method) == TRUE

\* Line 123: ['AES-128', 'SAMPLE-AES', 'NONE'].includes(method)
IsRecognized(method) ==
  method \in {<<"AES-128">>, <<"SAMPLE-AES">>, <<"NONE">>}

\* Lines 114-135: {} models the undefined the function returns.
ParseEncryption(line, base) ==
  LET attributes == ParseAttributes(Tail(line), [k \in {} |-> <<>>])
      method == Unquote(Attr(attributes, "METHOD"))
  IN IF Attr(attributes, "METHOD") = <<>> THEN {}
     ELSE IF ~IsRecognized(method) THEN {}
     ELSE { [ method |-> method,
              keyUri |-> IF Attr(attributes, "URI") # <<>>
                            /\ method # <<"NONE">>
                         THEN {ResolveUrl(Unquote(Attr(attributes, "URI")),
                                          base)}
                         ELSE {} ] }

PushVariantFirst(variants, variant) == <<variant>> \o variants

\* Line 30: result.variants.push(currentVariant)
PushVariant(variants, variant) == Append(variants, variant)

\* Lines 22-56: one turn of the loop over the lines; st is the result under
\* construction with currentVariant and isProcessingVariant.
ParseLine(st, line, base) ==
  IF ~StartsWith(line, "#")
  THEN IF st.isProcessingVariant /\ st.currentVariant.uri = {}
       THEN [st EXCEPT
               !.result.variants =
                 PushVariant(@, [st.currentVariant EXCEPT
                                   !.uri = {ResolveUrl(line, base)}]),
               !.currentVariant = [bandwidth |-> {}, codecs |-> {},
                                   resolution |-> {}, frameRate |-> {},
                                   uri |-> {}],
               !.isProcessingVariant = FALSE]
       ELSE IF Includes(line, ".m3u8")
            THEN [st EXCEPT !.result.mediaPlaylists =
                              Append(@, ResolveUrl(line, base))]
            ELSE st
  ELSE IF StartsWith(line, "#EXT-X-STREAM-INF:")
  THEN [st EXCEPT !.currentVariant = ParseStreamInf(line),
                  !.isProcessingVariant = TRUE]
  ELSE IF StartsWith(line, "#EXT-X-ENDLIST")
  THEN [st EXCEPT !.result.isLive = FALSE]
  ELSE IF StartsWith(line, "#EXT-X-PART")
          \/ StartsWith(line, "#EXT-X-PRELOAD-HINT")
  THEN [st EXCEPT !.result.isLowLatency = TRUE]
  ELSE IF StartsWith(line, "#EXT-X-KEY:")
  THEN [st EXCEPT !.result.encryption = ParseEncryption(line, base)]
  ELSE IF StartsWith(line, "#EXT-X-MEDIA:")
  THEN \* parseMedia, lines 140-149
       LET mediaUrl == Unquote(Attr(ParseAttributes(Tail(line),
                                                     [k \in {} |-> <<>>]),
                                    "URI"))
       IN IF mediaUrl # <<>>
          THEN [st EXCEPT !.result.mediaPlaylists =
                            Append(@, ResolveUrl(mediaUrl, base))]
          ELSE st
  ELSE st

\* Lines 8-69.
ParseManifest(text, base) ==
  LET lines == SelectSeq([i \in 1..Len(text) |-> Trim(text[i])],
                         LAMBDA line : line # <<>>)
      RECURSIVE Loop(_, _)
      Loop(i, st) == IF i > Len(lines) THEN st.result
                     ELSE Loop(i + 1, ParseLine(st, lines[i], base))
  IN Loop(1, [ result |-> [ isLive |-> TRUE, isLowLatency |-> FALSE,
                            variants |-> <<>>, mediaPlaylists |-> <<>>,
                            encryption |-> {} ],
               currentVariant |-> [bandwidth |-> {}, codecs |-> {},
                                   resolution |-> {}, frameRate |-> {},
                                   uri |-> {}],
               isProcessingVariant |-> FALSE ])

\* Lines 200-210.
IsValidM3U8(text) ==
  /\ StartsWith(Trim(text[1]), "#EXTM3U")
  /\ \E i \in 1..Len(text) : StartsWith(Trim(text[i]), "#EXT-X-")

\* Lines 245-262, with isMasterPlaylist (215-217): content.includes(...)
\* looks anywhere in the text.
GetBasicInfo(text) ==
  [ isValid |-> IsValidM3U8(text),
    isMaster |-> \E i \in 1..Len(text) : Includes(text[i], "#EXT-X-STREAM-INF"),
    isLive |-> ~(\E i \in 1..Len(text) : Includes(text[i], "#EXT-X-ENDLIST")),
    hasVariants |->
      \E i \in 1..Len(text) : Includes(text[i], "#EXT-X-STREAM-INF") ]

\* A manifest text of up to MaxLines lines, fetched from a candidate's URL.
ParserInit ==
  /\ content \in UNION {[1..n -> ManifestLines] : n \in 1..MaxLines}
  /\ baseUrl = "https://example.com/"
  /\ parsed = {}
  /\ basicInfo = {}

\* M3U8Parser.parseManifest(content, baseUrl)
ParserParse ==
  /\ parsed = {}
  /\ parsed' = {ParseManifest(content, baseUrl)}
  /\ UNCHANGED <<content, baseUrl, basicInfo, nonParserVars>>

\* M3U8Parser.getBasicInfo(content)
ParserBasicInfo ==
  /\ basicInfo = {}
  /\ basicInfo' = {GetBasicInfo(content)}
  /\ UNCHANGED <<content, baseUrl, parsed, nonParserVars>>

InitParser ==
  /\ PoolInit(BrowserPoolSize) /\ ~recreate /\ ActivationIdle /\ NavIdle
  /\ IcIdle /\ DetIdle /\ StoreIdle
  /\ ParserInit
  /\ FetchIdle
  /\ BudgetIdle
  /\ SharedIdle
  /\ PersistIdle
  /\ CookieIdle
  /\ PopupIdle
  /\ StdIdle

NextParser == ParserParse \/ ParserBasicInfo

SpecParser == InitParser /\ [][NextParser]_vars

\* ---- what the text says, read off the text itself
\* the lines that carry the given tag
LinesWith(tag) ==
  {i \in 1..Len(content) : \E k \in 1..Len(content[i]) : content[i][k] = tag}

\* the lines that are neither blank nor a tag or comment
UriLines ==
  {i \in 1..Len(content) :
     \E k \in 1..Len(content[i]) :
       /\ content[i][k] # " "
       /\ ~LexStartsWith(content[i][k], "#")
       /\ \A j \in 1..(k - 1) : content[i][j] = " "}

\* the variant-stream tags whose next URI line comes before any further
\* variant-stream tag, and that URI line
VariantTags ==
  {i \in LinesWith("#EXT-X-STREAM-INF:") :
     \E j \in UriLines :
       /\ j > i
       /\ \A k \in (i + 1)..(j - 1) :
            k \notin UriLines /\ k \notin LinesWith("#EXT-X-STREAM-INF:")}

UriLineOf(i) == CHOOSE j \in UriLines : j > i /\ \A k \in UriLines : k > i => j <= k

NthVariantTag(n) ==
  CHOOSE i \in VariantTags : Cardinality({j \in VariantTags : j < i}) = n - 1

\* the text of an attribute of a tag line: what stands between the quotes
\* of a quoted value, or up to the next ',' of a bare one; <<>> without it
AttributeText(line, key) ==
  LET at == {i \in 1..(Len(line) - 2) : line[i] = key /\ line[i + 1] = "="}
      i == CHOOSE k \in at : TRUE
      quoted == line[i + 2] = "\""
      from == IF quoted THEN i + 3 ELSE i + 2
      stops == {j \in from..Len(line) :
                  line[j] = (IF quoted THEN "\"" ELSE ",")}
      to == IF stops = {} THEN Len(line)
            ELSE (CHOOSE k \in stops : \A j \in stops : k <= j) - 1
  IN IF at = {} THEN <<>> ELSE SubSeq(line, from, to)

\* C21: a text with an end-of-list tag parses to isLive = false, and a valid
\* M3U8 text without one parses to isLive = true.
C21_LiveIffNoEndList ==
  \A r \in parsed :
    /\ LinesWith("#EXT-X-ENDLIST") # {} => ~r.isLive
    /\ IsValidM3U8(content) /\ LinesWith("#EXT-X-ENDLIST") = {} => r.isLive

C21_Witness ==
  \E r \in parsed :
    /\ IsValidM3U8(content)
    /\ content[Len(content)] = <<" ", "#EXT-X-ENDLIST", " ">>
    /\ ~r.isLive

\* C22: a variant whose tag has RESOLUTION=WxH, W and H decimal numerals,
\* has resolution {width: W, height: H}; a variant whose tag has any other
\* resolution text has no resolution.
C22_ResolutionExactOrAbsent ==
  \A r \in parsed :
    \A n \in 1..Len(r.variants) :
      LET text == AttributeText(content[NthVariantTag(n)], "RESOLUTION")
      IN IF /\ Len(text) = 3
            /\ text[1] \in DOMAIN Decimal
            /\ text[2] = "x"
            /\ text[3] \in DOMAIN Decimal
         THEN r.variants[n].resolution =
                {[width |-> Decimal[text[1]], height |-> Decimal[text[3]]]}
         ELSE r.variants[n].resolution = {}

\* C23 as stated: the variants list holds one variant per variant-stream tag.
C23_OneVariantPerTag ==
  \A r \in parsed :
    Len(r.variants) = Cardinality(LinesWith("#EXT-X-STREAM-INF:"))

\* C23: the variants list holds, in source order, one variant per
\* variant-stream tag whose next URI line comes before any further
\* variant-stream tag: the tag's attributes with that line as uri, resolved
\* against baseUrl.  A tag that is followed by another variant-stream tag or
\* by no URI line gives no variant.
C23_OneVariantPerConsumedTag ==
  \A r \in parsed :
    /\ Len(r.variants) = Cardinality(VariantTags)
    /\ \A n \in 1..Len(r.variants) :
         LET line == SelectSeq(content[UriLineOf(NthVariantTag(n))],
                               LAMBDA lex : lex # " ")
             uri == IF LexStartsWith(line[1], "https://") THEN line
                    ELSE <<baseUrl>> \o line
         IN r.variants[n] =
              [ParseStreamInf(SelectSeq(content[NthVariantTag(n)],
                                        LAMBDA lex : lex # " "))
                 EXCEPT !.uri = {uri}]

C23_Witness ==
  \E r \in parsed :
    /\ Len(r.variants) = 2
    /\ r.variants[1] # r.variants[2]
    /\ r.variants[1].bandwidth # r.variants[2].bandwidth
    /\ Len(content) = 4

\* C24: the encryption of the parsed manifest is that of its last key tag:
\* method and key URI if the tag's METHOD is AES-128, SAMPLE-AES or NONE,
\* nothing if it is any other method.
C24_EncryptionOnlyForRecognizedMethod ==
  \A r \in parsed :
    LET keys == LinesWith("#EXT-X-KEY:")
        last == CHOOSE i \in keys : \A j \in keys : i >= j
        method == AttributeText(content[last], "METHOD")
        uri == AttributeText(content[last], "URI")
    IN IF keys # {} /\ method \in {<<"AES-128">>, <<"SAMPLE-AES">>, <<"NONE">>}
       THEN r.encryption =
              {[method |-> method,
                keyUri |-> IF method = <<"NONE">> \/ uri = <<>> THEN {}
                           ELSE {uri}]}
       ELSE r.encryption = {}

C24_Witness ==
  \E r \in parsed :
    /\ r.encryption # {}
    /\ \E i \in LinesWith("#EXT-X-KEY:") :
         AttributeText(content[i], "METHOD") = <<"SAMPLE-AES-CTR">>

\* C25: for a text that is no valid M3U8 manifest, getBasicInfo returns
\* isValid, isMaster, isLive and hasVariants all false.
C25_InvalidContentAllFalse ==
  \A info \in basicInfo :
    ~IsValidM3U8(content) =>
      info = [isValid |-> FALSE, isMaster |-> FALSE, isLive |-> FALSE,
              hasVariants |-> FALSE]

\* C26: a variant whose tag has a quoted CODECS value has as codecs the
\* whole text between the quotes, commas included, and the FRAME-RATE that
\* follows it is parsed.
C26_QuotedValueKeptWhole ==
  \A r \in parsed :
    \A n \in 1..Len(r.variants) :
      LET tag == content[NthVariantTag(n)]
      IN /\ AttributeText(tag, "CODECS") # <<>> =>
              r.variants[n].codecs = {AttributeText(tag, "CODECS")}
         /\ AttributeText(tag, "FRAME-RATE") = <<"30.000">> =>
              r.variants[n].frameRate = {30}

\* ------------------------------------------------- fetchManifestContent
\* resolver.service.ts, lines 863-1012: processHLSCandidates hands the
\* candidates one after the other to processHLSCandidate, which fetches the
\* manifest of each with fetchManifestContent.

MaxCandidates == 2

\* What one axios.get comes to: the body, or an error with its code.
AxiosOutcomes == {"ok", "ERR_INVALID_CHAR", "ECONNABORTED", "ERR_BAD_REQUEST"}

\* server/index.ts, lines 452-515: HeadersManager.buildContextualHeaders,
\* by the names of the headers it sets.
BuildContextualHeaders(cookie, minimalProfile) ==
  {"user-agent", "accept", "referer"}
    \cup (IF minimalProfile THEN {}
          ELSE {"origin", "accept-language"}
                 \cup (IF cookie THEN {"cookie"} ELSE {}))

RetriedOnAnyError(code) == code # "ok"

\* Line 979: only error.code === 'ERR_INVALID_CHAR' reaches the second attempt.
Retried(code) == code = "ERR_INVALID_CHAR"

\* fetchManifestContent returned for the candidate at hand; the loop of
\* processHLSCandidates goes to the next one.
FetchReturn(value) ==
  /\ fetchReturned' = Append(fetchReturned, value)
  /\ fetchIdx' = fetchIdx + 1
  /\ fetchPc' = IF fetchIdx + 1 > Len(fetchCandidates) THEN "done" ELSE "begin"

\* Lines 947-968: a candidate whose URL normalizeM3U8Url rejects gives null
\* without any request.
FetchBegin ==
  /\ fetchPc = "begin"
  /\ IF fetchCandidates[fetchIdx].urlValid
     THEN fetchPc' = "first" /\ UNCHANGED <<fetchIdx, fetchReturned>>
     ELSE FetchReturn("null")
  /\ UNCHANGED <<fetchCandidates, fetchLog, nonFetchVars>>

\* Lines 968-992: the first axios.get, with the full header profile.
FetchFirstAttempt(code) ==
  /\ fetchPc = "first"
  /\ fetchLog' = Append(fetchLog,
       [candidate |-> fetchIdx,
        headers |-> BuildContextualHeaders(fetchCandidates[fetchIdx].cookie,
                                           FALSE),
        code |-> code])
  /\ IF code = "ok" THEN FetchReturn("data")
     ELSE IF Retried(code)
          THEN fetchPc' = "second" /\ UNCHANGED <<fetchIdx, fetchReturned>>
          ELSE FetchReturn("null")
  /\ UNCHANGED <<fetchCandidates, nonFetchVars>>

\* Lines 995-1011: the second axios.get, with the minimal header profile.
FetchSecondAttempt(code) ==
  /\ fetchPc = "second"
  /\ fetchLog' = Append(fetchLog,
       [candidate |-> fetchIdx,
        headers |-> BuildContextualHeaders(fetchCandidates[fetchIdx].cookie,
                                           TRUE),
        code |-> code])
  /\ FetchReturn(IF code = "ok" THEN "data" ELSE "null")
  /\ UNCHANGED <<fetchCandidates, nonFetchVars>>

FetchInit ==
  /\ fetchCandidates \in
       UNION {[1..n -> [urlValid : BOOLEAN, cookie : BOOLEAN]] :
                n \in 1..MaxCandidates}
  /\ fetchIdx = 1
  /\ fetchPc = "begin"
  /\ fetchLog = <<>>
  /\ fetchReturned = <<>>

InitFetch ==
  /\ PoolInit(BrowserPoolSize) /\ ~recreate /\ ActivationIdle /\ NavIdle
  /\ IcIdle /\ DetIdle /\ StoreIdle
  /\ ParserIdle
  /\ FetchInit
  /\ BudgetIdle
  /\ SharedIdle
  /\ PersistIdle
  /\ CookieIdle
  /\ PopupIdle
  /\ StdIdle

NextFetch ==
  \/ FetchBegin
  \/ \E code \in AxiosOutcomes : FetchFirstAttempt(code)
  \/ \E code \in AxiosOutcomes : FetchSecondAttempt(code)

SpecFetch == InitFetch /\ [][NextFetch]_vars

\* the GET attempts made for candidate c, in order
AttemptsFor(c) == SelectSeq(fetchLog, LAMBDA a : a.candidate = c)

\* C27: a candidate's manifest is fetched with at most two GET attempts, the
\* first with the full header profile; there is a second attempt, with the
\* minimal profile (user agent, referer, accept), exactly when the first
\* failed with ERR_INVALID_CHAR; after any other failure of the first attempt
\* the fetch has returned null.
C27_SecondAttemptIffInvalidChar ==
  \A c \in 1..Len(fetchCandidates) :
    LET attempts == AttemptsFor(c)
        finished == c <= Len(fetchReturned)
    IN /\ Len(attempts) <= 2
       /\ Len(attempts) >= 1 =>
            {"origin", "accept-language"} \subseteq attempts[1].headers
       /\ Len(attempts) = 2 =>
            /\ attempts[1].code = "ERR_INVALID_CHAR"
            /\ attempts[2].headers = {"user-agent", "referer", "accept"}
       /\ finished /\ Len(attempts) >= 1
            /\ attempts[1].code = "ERR_INVALID_CHAR" => Len(attempts) = 2
       /\ Len(attempts) >= 1
            /\ attempts[1].code \notin {"ok", "ERR_INVALID_CHAR"} =>
              finished /\ fetchReturned[c] = "null"

C27_Witness ==
  /\ fetchPc = "done"
  /\ Len(fetchCandidates) = 2
  /\ Len(AttemptsFor(1)) = 2
  /\ AttemptsFor(1)[2].code = "ok"
  /\ fetchReturned[1] = "data"
  /\ Len(AttemptsFor(2)) = 1
  /\ AttemptsFor(2)[1].code = "ECONNABORTED"

\* ---- the order of the fallback steps (SpecNavigate)
\* A step after the first centre click is run: the second centre click, the
\* overlay dismissal, the click on a play element or on an iframe.
LaterStepRuns ==
  \/ navPc \in {"click2", "overlay"} /\ navPc' # navPc
  \/ navPc \in {"playClick", "iframeClick"} /\ elemsLeft' < elemsLeft

\* C29: the detector is re-checked after each fallback step, so a later step
\* is run only if it held no candidate after the step before it: a candidate
\* it holds when a later step is run arrived after the re-check that followed
\* the step before, and no re-check separates the second centre click from the
\* first.
C29_LaterStepOnlyWithoutCandidate ==
  [][LaterStepRuns =>
       \/ ~hasCandidate
       \/ /\ navPc # "click2"
          /\ arrivedAt \notin {"check1", "check2", "click1", "click2"}]_vars

\* ------------------------------------------- the waits of a resolution
\* resolver.service.ts, lines 329-741 and 1114-1152: what navigateAndDetect
\* awaits, in milliseconds.

\* options.timeoutMs: what resolveHLS passes (line 131) and the default of
\* NAV_TIMEOUT_MS (config/env.ts, line 23).
Timeouts == {10000, 30000}

\* The sub-waits of navigateAndDetect in the order of the code, for a time
\* budget t and a call in: the navigation (its timeout throws), a
\* waitForTimeout (sleep), a waitForTimeout followed by a look at the detector
\* (sleepCheck), a click raced against a timer (race; when the timer wins, the
\* catch block skips the next `skip` sub-waits of the try block), and a
\* waitForStreamDetection (detect).
SubWaits(t, in) ==
  LET W(kind, ms, skip) == [kind |-> kind, ms |-> ms, skip |-> skip]
      Times(n, ws) == [i \in 1..(n * Len(ws)) |-> ws[((i - 1) % Len(ws)) + 1]]
  IN <<W("navigate", t, 0),                      \* 335-338
       W("sleepCheck", 1000, 0),                 \* 351-363
       W("sleepCheck", 1000, 0),                 \* 366-376
       W("race", 5000, 0)>>                      \* 404-409
     \o (IF in.clickRetries > 0                  \* 423-431
         THEN <<W("sleep", 140, 0), W("race", 5000, 0)>> ELSE <<>>)
     \o <<W("detect", 1000, 0)>>                 \* 452-457
     \o (IF in.overlays > 0                      \* 503-531
         THEN <<W("sleep", 1000, 0), W("race", 2000, 1), W("detect", 1500, 0)>>
         ELSE <<>>)
     \o Times(in.plays,                          \* 610-633
              <<W("race", 2500, 2), W("sleep", 800, 0), W("detect", 1800, 0)>>)
     \o Times(in.frames,                         \* 682-702
              <<W("race", 3000, 1), W("detect", 1200, 0)>>)
     \o <<W("detect", Max(5000, t - 1000), 0)>>  \* 730-741

\* navigateAndDetect is called with a time budget.
BudgetInit ==
  /\ timeoutMs \in Timeouts
  /\ waitIn \in [clickRetries : 0..MaxClickRetries, overlays : 0..MaxOverlays,
                 plays : 0..MaxPlayElements, frames : 0..MaxFrames]
  /\ waitIdx = 1
  /\ waitedMs = 0
  /\ waitEnd = "running"

\* The next sub-wait is gone through.  lasted = "quick": the navigation or the
\* click settles at once; "full": the sub-wait lasts its whole time (the
\* navigation times out and throws, the click loses its race, the detector
\* stays empty); "found": the detector holds a candidate when it is looked at.
SubWaitElapses(lasted) ==
  LET w == SubWaits(timeoutMs, waitIn)[waitIdx]
      last == Len(SubWaits(timeoutMs, waitIn))
      Next_(ms, i) ==
        /\ waitedMs' = waitedMs + ms
        /\ waitIdx' = i
        /\ waitEnd' = IF i > last THEN "returned" ELSE "running"
      End(ms, how) ==
        /\ waitedMs' = waitedMs + ms
        /\ waitIdx' = waitIdx
        /\ waitEnd' = how
  IN /\ waitEnd = "running"
     /\ CASE w.kind = "navigate" ->
               \/ lasted = "quick" /\ Next_(0, waitIdx + 1)
               \/ lasted = "full" /\ End(w.ms, "threw")
          [] w.kind = "sleep" ->
               lasted = "full" /\ Next_(w.ms, waitIdx + 1)
          [] w.kind = "sleepCheck" ->
               \/ lasted = "full" /\ Next_(w.ms, waitIdx + 1)
               \/ lasted = "found" /\ End(w.ms, "returned")
          [] w.kind = "race" ->
               \/ lasted = "quick" /\ Next_(0, waitIdx + 1)
               \/ lasted = "full" /\ Next_(w.ms, waitIdx + 1 + w.skip)
          [] w.kind = "detect" ->
               \/ lasted = "found" /\ End(0, "returned")
               \/ lasted = "full" /\ Next_(w.ms, waitIdx + 1)
     /\ UNCHANGED <<timeoutMs, waitIn, nonBudgetVars>>

InitBudget ==
  /\ PoolInit(BrowserPoolSize) /\ ~recreate /\ ActivationIdle /\ NavIdle
  /\ IcIdle /\ DetIdle /\ StoreIdle
  /\ ParserIdle /\ FetchIdle
  /\ BudgetInit
  /\ SharedIdle
  /\ PersistIdle
  /\ CookieIdle
  /\ PopupIdle
  /\ StdIdle

NextBudget == \E lasted \in {"quick", "full", "found"} : SubWaitElapses(lasted)

SpecBudget == InitBudget /\ [][NextBudget]_vars

\* C28: every sub-wait of a resolution is bounded by what is left of the time
\* budget when it starts, and the time spent waiting never exceeds the budget.
C28_WaitingWithinBudget ==
  /\ waitedMs <= timeoutMs
  /\ waitEnd = "running" =>
       SubWaits(timeoutMs, waitIn)[waitIdx].ms <= timeoutMs - waitedMs

\* --------------------------------------- detectors on a shared browser
\* detectors/hls-detector.ts (part_007), lines 50-174 and 436-488, with
\* BrowserPool.getPage: resolution r opens page r with browser.newPage() on
\* the one browser of the pool and arms its own HLSDetector on it.  A target
\* is a page or a child target (an iframe) of a page; a URL is the page it
\* was requested on and its path.

MaxResponses == 3

\* The page of resolution r is open: from getPage to the release.
PageOpen(r) == shPc[r] \in {"leased", "armed", "navigating", "navigated"}

\* Target t is there: its page is open and, for a child, was opened.
TargetExists(t) ==
  PageOpen(t.page) /\ (t.kind = "child" => t.page \in shChildren)

\* Line 119 to line 451: the targetCreatedHandler of detector d is on the
\* browser.
HandlerOn(d) == shPc[d] \in {"armed", "navigating", "navigated"}

\* Lines 106-119: the browser emits 'targetcreated' for target t; the handler
\* of every detector that has one calls setupCDPForTarget(t), which starts
\* with await target.createCDPSession() (line 66).
OnTargetCreated(t) ==
  shPending' = [d \in 1..NumLeases |->
                  IF HandlerOn(d) THEN shPending[d] \cup {t}
                  ELSE shPending[d]]

\* BrowserPool.getPage: browser.newPage() creates the page target of r.
ShGetPage(r) ==
  /\ shPc[r] = "idle"
  /\ shPc' = [shPc EXCEPT ![r] = "leased"]
  /\ OnTargetCreated([kind |-> "page", page |-> r])
  /\ UNCHANGED <<shChildren, shSessions, shCandidates, shResponses, shGuards,
                 nonSharedVars>>

\* Lines 50-125: setupDetection puts the page listeners on its own page, a
\* CDP session on the page's target, and its handler on browser
\* 'targetcreated'.
ShSetupDetection(r) ==
  /\ shPc[r] = "leased"
  /\ shPc' = [shPc EXCEPT ![r] = "armed"]
  /\ shSessions' = [shSessions EXCEPT
                      ![r] = @ \cup {[kind |-> "page", page |-> r]}]
  /\ UNCHANGED <<shChildren, shCandidates, shResponses, shPending, shGuards,
                 nonSharedVars>>

\* Lines 64-100, after the await of line 66: createCDPSession() of detector d
\* on target t settles.  With a session, the detector adds it to cdpSessions
\* (67), enables Network and listens (69-84), whatever became of the detector
\* in the meantime; it fails, and is logged (94-99), when the target is gone or
\* the browser refuses.
ShAttach(d, t, ok) ==
  /\ t \in shPending[d]
  /\ ok => TargetExists(t)
  /\ shPending' = [shPending EXCEPT ![d] = @ \ {t}]
  /\ shSessions' = [shSessions EXCEPT ![d] = IF ok THEN @ \cup {t} ELSE @]
  /\ UNCHANGED <<shPc, shChildren, shCandidates, shResponses, shGuards,
                 nonSharedVars>>

\* resolver.service.ts 262-303: navigateAndDetect puts its popup guard on
\* browser 'targetcreated'.
ShNavigate(r) ==
  /\ shPc[r] = "armed"
  /\ shPc' = [shPc EXCEPT ![r] = "navigating"]
  /\ shGuards' = shGuards \cup {r}
  /\ UNCHANGED <<shChildren, shSessions, shCandidates, shResponses, shPending,
                 nonSharedVars>>

\* resolver.service.ts 772-777: the finally of navigateAndDetect, on return
\* and on throw, takes the popup guard off.
ShNavigateEnd(r) ==
  /\ shPc[r] = "navigating"
  /\ shPc' = [shPc EXCEPT ![r] = "navigated"]
  /\ shGuards' = shGuards \ {r}
  /\ UNCHANGED <<shChildren, shSessions, shCandidates, shResponses, shPending,
                 nonSharedVars>>

\* The page p opens a child target; the browser emits 'targetcreated'.
ShChildTarget(p) ==
  /\ PageOpen(p)
  /\ p \notin shChildren
  /\ shChildren' = shChildren \cup {p}
  /\ OnTargetCreated([kind |-> "child", page |-> p])
  /\ UNCHANGED <<shPc, shSessions, shCandidates, shResponses, shGuards,
                 nonSharedVars>>

\* A response with status 200 arrives on target t.  page.on('response') of
\* the detector of that page and the Network.responseReceived listener of
\* every session on t call handleResponse (lines 59, 71-83), which adds the
\* URL when isHlsManifest says so (130-163).
ShResponse(t, path) ==
  /\ TargetExists(t)
  /\ shResponses < MaxResponses
  /\ shResponses' = shResponses + 1
  /\ shCandidates' =
       [d \in 1..NumLeases |->
          IF /\ \/ t \in shSessions[d]
                \/ d = t.page /\ t.kind = "page" /\ HandlerOn(d)
             /\ IsHlsManifest(path, "")
          THEN shCandidates[d] \cup {[page |-> t.page, path |-> path]}
          ELSE shCandidates[d]]
  /\ UNCHANGED <<shPc, shChildren, shSessions, shPending, shGuards,
                 nonSharedVars>>

\* Lines 436-488 and the release of the lease (resolver.service.ts 187-197):
\* dispose takes the page listeners and the handler off, detaches the sessions
\* that are in cdpSessions and clears the candidates; the page is closed and
\* its targets are gone, with the sessions other detectors had on them.
ShDispose(r) ==
  /\ shPc[r] \in {"armed", "navigated"}
  /\ shPc' = [shPc EXCEPT ![r] = "done"]
  /\ shChildren' = shChildren \ {r}
  /\ shSessions' = [d \in 1..NumLeases |->
                      IF d = r THEN {}
                      ELSE {t \in shSessions[d] : t.page # r}]
  /\ shCandidates' = [shCandidates EXCEPT ![r] = {}]
  /\ UNCHANGED <<shResponses, shPending, shGuards, nonSharedVars>>

InitShared ==
  /\ PoolInit(BrowserPoolSize) /\ ~recreate /\ ActivationIdle /\ NavIdle
  /\ IcIdle /\ DetIdle /\ StoreIdle
  /\ ParserIdle /\ FetchIdle /\ BudgetIdle
  /\ shPc = [r \in 1..NumLeases |-> "idle"]
  /\ shChildren = {}
  /\ shSessions = [r \in 1..NumLeases |-> {}]
  /\ shCandidates = [r \in 1..NumLeases |-> {}]
  /\ shResponses = 0
  /\ shPending = [r \in 1..NumLeases |-> {}]
  /\ shGuards = {}
  /\ PersistIdle
  /\ CookieIdle
  /\ PopupIdle
  /\ StdIdle

NextShared ==
  \/ \E r \in 1..NumLeases : ShGetPage(r)
  \/ \E r \in 1..NumLeases : ShSetupDetection(r)
  \/ \E d \in 1..NumLeases, p \in 1..NumLeases, kind \in {"page", "child"},
        ok \in BOOLEAN :
       ShAttach(d, [kind |-> kind, page |-> p], ok)
  \/ \E r \in 1..NumLeases : ShNavigate(r)
  \/ \E r \in 1..NumLeases : ShNavigateEnd(r)
  \/ \E p \in 1..NumLeases : ShChildTarget(p)
  \/ \E p \in 1..NumLeases, kind \in {"page", "child"}, path \in Urls :
       ShResponse([kind |-> kind, page |-> p], path)
  \/ \E r \in 1..NumLeases : ShDispose(r)

SpecShared == InitShared /\ [][NextShared]_vars

\* C30: the candidates of a resolution are URLs observed on its own page or
\* on a child target of its page, never on the page of another resolution.
C30_OnlyOwnPageCandidates ==
  \A r \in 1..NumLeases : \A u \in shCandidates[r] : u.page = r

\* C31: when a resolution has ended, none of its listeners is left on the
\* browser: its detector has no targetcreated handler and no CDP session, and
\* its popup guard is off.
C31_NothingLeftAfterEnd ==
  \A r \in 1..NumLeases :
    shPc[r] = "done" =>
      /\ ~HandlerOn(r)
      /\ r \notin shGuards
      /\ shSessions[r] = {}

\* ------------------------------------------------------ the active-page counter

\* Tabs opened by browser.newPage() in a step, and leases released in it.
OpenedInStep == {c \in Callers : ~tabOpen[c] /\ tabOpen'[c]}
ReleasedInStep == {c \in Callers : ~isReleased[c] /\ isReleased'[c]}

\* C32: activePagesCount is the number of tabs the pool has opened and that
\* have not been released: every step changes it by the tabs opened in the
\* step less the leases released in it, and it is never negative.
C32_CounterTracksOpenTabs ==
  [][/\ activePagesCount' - activePagesCount =
          Cardinality(OpenedInStep) - Cardinality(ReleasedInStep)
     /\ activePagesCount' >= 0]_vars

\* ------------------------------------------------------ completion of getPage

\* The steps the event loop takes by itself once their promise has settled:
\* everything but the arrival of a call, a crash and a shutdown() call.
PoolProgress ==
  \/ \E c \in Resolutions : LaunchDone(c)
  \/ \E c \in Resolutions : NewPageDone(c)
  \/ \E c \in Resolutions : ConfigureDone(c)
  \/ \E c \in Resolutions : Throw(c)
  \/ \E c \in Resolutions : ResolveSetup(c)
  \/ \E c \in Resolutions : ResolveNavigate(c)
  \/ \E c \in Resolutions : ResolveFinally(c)
  \/ \E c \in Resolutions : ReleaseFinish(c)
  \/ \E b \in BrowserIds : BrowserCloseDone(b)
  \/ ShutdownFinish

\* SpecResolve with an event loop that does not stop while a step is ready.
SpecResolveFair == SpecResolve /\ WF_vars(PoolProgress)

\* The getPage() call of c has settled, with a lease or with an error.
Settled(c) == c \in Handed \/ pc[c] \in {"failed", "rejected"}

\* C33: every getPage() call that was made eventually settles, with a lease or
\* with an error.
C33_EveryCallSettles ==
  \A c \in Resolutions : (pc[c] # "idle") ~> Settled(c)

\* ------------------------------------------------------ re-created browsers

\* The browser processes that run, and the ones in this.browsers.
Running == {b \in BrowserIds : browserState[b] = "connected"}
Tracked == {browsers[i] : i \in 1..Len(browsers)}

\* C34: while the pool is in service it holds exactly N browsers and every
\* running browser process is in its list; a shutdown() whose closes all
\* succeeded leaves no browser process running.
C34_EveryBrowserTracked ==
  /\ shutdownPc = "idle" =>
       Len(browsers) = ShutdownPoolSize /\ Running \subseteq Tracked
  /\ (shutdownPc = "done" /\ closeFailed = {}) => Running = {}

\* ------------------------------------------------------ concurrent set() calls
\* of JsonStrategyCache (part_006, lines 47-88): callers do not wait for each
\* other, so a set() may start while the fs.writeFile() of another is in flight.

\* What a set() of the JSON store and its write leave alone.
nonStorePersistVars ==
  <<recreate, poolVars, callerVars, leaseVars, shutdownVars, actRunVars,
    navVars, icVars, detVars, parserVars, fetchVars, budgetVars, sharedVars,
    cookieVars, popupVars, stdVars>>

\* Lines 75-83: set() up to the await inside persist(): Map.set, then the data
\* is serialised from the map as it is now and fs.writeFile() is started.
StoreSetBegin(d, s) ==
  /\ storeOps < MaxStoreOps
  /\ storeOps' = storeOps + 1
  /\ cache' = CacheSet(cache, d, s)
  /\ pendingWrites' = pendingWrites \cup {cache'}
  /\ storeResult' = [op |-> "set", domain |-> d, value |-> s, threw |-> FALSE]
  /\ UNCHANGED <<storeKind, cacheFile, persistFailed, nonStorePersistVars>>

\* Lines 83-86: one fs.writeFile() settles, in whatever order the writes end.
\* The file then holds the data of that call; a failed write is logged and
\* leaves the file.
StoreWriteDone(data, ok) ==
  /\ data \in pendingWrites
  /\ pendingWrites' = pendingWrites \ {data}
  /\ cacheFile' = IF ok THEN data ELSE cacheFile
  /\ persistFailed' = (persistFailed \/ ~ok)
  /\ UNCHANGED <<cache, storeKind, storeOps, storeResult, nonStorePersistVars>>

\* Lines 47-63: initialize() of a new process reads the file back into a Map.
Initialize(file) == [d \in Domains |-> file[d]]

InitPersist ==
  /\ PoolInit(BrowserPoolSize) /\ ~recreate /\ NavIdle /\ IcIdle /\ DetIdle
  /\ actDomain = "a.example" /\ actNeed = 0 /\ actFailAt = 0 /\ actPc = "done"
  /\ actStrategies = <<>> /\ actIdx = 0 /\ actTry = 0 /\ actClicks = 0
  /\ actResult = "null"
  /\ StoreInit /\ storeKind = "json"
  /\ ParserIdle /\ FetchIdle /\ BudgetIdle /\ SharedIdle
  /\ pendingWrites = {}
  /\ persistFailed = FALSE
  /\ CookieIdle
  /\ PopupIdle
  /\ StdIdle

NextPersist ==
  \/ \E d \in Domains, s \in StrategyNames : StoreSetBegin(d, s)
  \/ \E data \in [Domains -> CacheEntries \cup {NoEntry}], ok \in BOOLEAN :
       StoreWriteDone(data, ok)

SpecPersist == InitPersist /\ [][NextPersist]_vars

\* C35: once every set() call has completed and no write has failed, loading
\* the file gives the entries of the map in memory.
C35_FileHoldsTheMap ==
  (pendingWrites = {} /\ ~persistFailed) => Initialize(cacheFile) = cache

\* ------------------------------------------------------ cookies of candidates
\* HLSDetector.collectCookies (part_007, lines 235-262) and the cookie filter
\* of fetchManifestContent (resolver.service.ts 939-965).

\* cookie.domain of the cookies a page can hold: example.com, .example.com and
\* other.net.
CookieDomains == {<<"example.com">>, <<".", "example.com">>, <<"other.net">>}

\* String.prototype.endsWith.
EndsWith(str, suffix) ==
  /\ Len(suffix) <= Len(str)
  /\ SubSeq(str, Len(str) - Len(suffix) + 1, Len(str)) = suffix

\* resolver.service.ts 959: the cookie domain without its leading dot.
WithoutLeadingDot(domain) ==
  IF domain # <<>> /\ Head(domain) = "." THEN Tail(domain) ELSE domain

\* resolver.service.ts 955-960: the cookies of the candidate that are sent to
\* the manifest's host.
RelevantCookies(cookies, manifestDomain) ==
  {c \in cookies : EndsWith(manifestDomain, WithoutLeadingDot(c))}

\* The site sets a cookie of some domain on the page.
CkSetCookie(domain) ==
  /\ domain \notin ckJar
  /\ ckJar' = ckJar \cup {domain}
  /\ UNCHANGED <<ckCandidates, ckCookies, ckSent, nonCookieVars>>

\* addCandidate (part_007, 354-372): a new candidate has no cookies.
CkAddCandidate(host) ==
  /\ host \notin ckCandidates
  /\ ckCandidates' = ckCandidates \cup {host}
  /\ ckCookies' = [ckCookies EXCEPT ![host] = {}]
  /\ UNCHANGED <<ckJar, ckSent, nonCookieVars>>

\* collectCookies: the cookies page.cookies() returns become the cookies of
\* every candidate.
CollectCookies ==
  /\ ckCandidates # {}
  /\ ckCookies' = [h \in ManifestHosts |->
                     IF h \in ckCandidates THEN ckJar ELSE ckCookies[h]]
  /\ UNCHANGED <<ckJar, ckCandidates, ckSent, nonCookieVars>>

\* fetchManifestContent of a candidate: the Cookie header of its request.
CkFetchManifest(host) ==
  /\ host \in ckCandidates
  /\ ckSent' = [ckSent EXCEPT ![host] = RelevantCookies(ckCookies[host], host)]
  /\ UNCHANGED <<ckJar, ckCandidates, ckCookies, nonCookieVars>>

InitCookie ==
  /\ PoolInit(BrowserPoolSize) /\ ~recreate /\ ActivationIdle /\ NavIdle
  /\ IcIdle /\ DetIdle /\ StoreIdle
  /\ ParserIdle /\ FetchIdle /\ BudgetIdle /\ SharedIdle /\ PersistIdle
  /\ CookieIdle
  /\ PopupIdle
  /\ StdIdle

NextCookie ==
  \/ \E domain \in CookieDomains : CkSetCookie(domain)
  \/ \E host \in ManifestHosts : CkAddCandidate(host)
  \/ CollectCookies
  \/ \E host \in ManifestHosts : CkFetchManifest(host)

SpecCookie == InitCookie /\ [][NextCookie]_vars

\* C36: the domain of every cookie attached to a candidate, or sent with the
\* fetch of its manifest, is a suffix of the host of the candidate's manifest
\* (a leading dot of the domain set aside).
C36_CookiesOfTheManifestHost ==
  \A h \in ckCandidates : \A c \in ckCookies[h] \cup ckSent[h] :
    EndsWith(h, WithoutLeadingDot(c))

\* ------------------------------------------------------ the popup guard
\* onTargetCreated of navigateAndDetect (resolver.service.ts 262-303).

MaxChildTabs == 2

\* URLs as new URL() reads them: the scheme and the host, which carries the
\* port; about:blank has an empty host.
PageUrls ==
  {[scheme |-> "https:", host |-> "example.com"],
   [scheme |-> "http:", host |-> "example.com"]}
ChildUrls ==
  PageUrls \cup {[scheme |-> "https:", host |-> "example.com:8080"],
                 [scheme |-> "https:", host |-> "ads.net"],
                 [scheme |-> "about:", host |-> ""]}

\* URL.host (lines 262 and 277-280).
Host(url) == url.host

\* Line 283: the test that closes the child page.
Blocked(host, originHost) == host # "" /\ host # originHost

\* The browser emits 'targetcreated' for a target of the given type that the
\* page opened at the given URL; the guard runs to its end.  Only a target of
\* type 'page' is looked at; t.page() may give no page and child.close() may
\* throw, which leave the tab open.
GuardOnTargetCreated(targetType, href, pageOk, closeWorks) ==
  /\ Len(guTabs) < MaxChildTabs
  /\ guTabs' = Append(guTabs,
       [type |-> targetType, url |-> href,
        failed |-> targetType = "page" /\ (~pageOk \/ ~closeWorks),
        closed |-> /\ targetType = "page" /\ pageOk
                   /\ Blocked(Host(href), Host(guUrl))
                   /\ closeWorks])
  /\ UNCHANGED <<guUrl, nonPopupVars>>

InitPopup ==
  /\ PoolInit(BrowserPoolSize) /\ ~recreate /\ ActivationIdle /\ NavIdle
  /\ IcIdle /\ DetIdle /\ StoreIdle
  /\ ParserIdle /\ FetchIdle /\ BudgetIdle /\ SharedIdle /\ PersistIdle
  /\ CookieIdle
  /\ guUrl \in PageUrls
  /\ guTabs = <<>>
  /\ StdIdle

NextPopup ==
  \E targetType \in {"page", "other"}, href \in ChildUrls,
     pageOk \in BOOLEAN, closeWorks \in BOOLEAN :
    GuardOnTargetCreated(targetType, href, pageOk, closeWorks)

SpecPopup == InitPopup /\ [][NextPopup]_vars

\* The origin of a URL: its scheme with its host and port.
Origin(url) == <<url.scheme, url.host>>

\* C37: a child tab for which the guard ran without a failure is closed if and
\* only if it was opened outside the origin of the page being resolved.
C37_ClosedIffForeignOrigin ==
  \A i \in 1..Len(guTabs) :
    (guTabs[i].type = "page" /\ ~guTabs[i].failed) =>
      (guTabs[i].closed <=> Origin(guTabs[i].url) # Origin(guUrl))

\* ------------------------------------------------------ the standard pipeline
\* RequestInterceptorFactory.createStandard (part_008, lines 484-495) with its
\* three rules (548-657).

\* A request: the patterns its lower-cased URL contains (a manifest marker, an
\* ad domain, a tracking pattern, a thumbnail word) and its resource type.
UrlPatterns == {".m3u8", "doubleclick.net", "/analytics", "thumb"}
ResourceTypes == {"media", "xhr", "image", "stylesheet", "other"}
Requests == [url : SUBSET UrlPatterns, resourceType : ResourceTypes]

\* test() of the ad-blocker rule (563-566).
AdBlockTest(request) == "doubleclick.net" \in request.url

\* test() of the tracking-blocker rule (595-598).
TrackingTest(request) == "/analytics" \in request.url

\* test() of the optimization rule (615-651).
OptimizationTest(request) ==
  IF \/ ".m3u8" \in request.url
     \/ request.resourceType \in {"media", "xhr", "fetch", "document", "script"}
    THEN FALSE
  ELSE IF request.resourceType \in {"image", "stylesheet", "font"}
    THEN "thumb" \notin request.url
  ELSE FALSE

\* The rules of createStandard, in the order of its list, as the request sees
\* them: 1 the ad-blocker, 2 the tracking-blocker, 3 the optimization rule.
CreateStandard(request) ==
  LET Seen(t) == IF t THEN "yes" ELSE "no" IN
  << [name |-> 1, priority |-> 900, test |-> Seen(AdBlockTest(request)),
      action |-> "abort"],
     [name |-> 2, priority |-> 800, test |-> Seen(TrackingTest(request)),
      action |-> "abort"],
     [name |-> 3, priority |-> 100, test |-> Seen(OptimizationTest(request)),
      action |-> "abort"] >>

InitStandard ==
  /\ PoolInit(BrowserPoolSize) /\ ~recreate /\ ActivationIdle /\ NavIdle
  /\ DetIdle /\ StoreIdle
  /\ ParserIdle /\ FetchIdle /\ BudgetIdle /\ SharedIdle /\ PersistIdle
  /\ CookieIdle /\ PopupIdle
  /\ stdRequest \in Requests
  /\ icRegistered = CreateStandard(stdRequest)
  /\ icRules = SortDesc(icRegistered)
  /\ icResult = NoDecision

NextStandard == IcHandleRequest

SpecStandard == InitStandard /\ [][NextStandard]_vars

\* C38: the standard pipeline aborts no request whose URL carries the manifest
\* marker .m3u8.
C38_ManifestNeverAborted ==
  ".m3u8" \in stdRequest.url => icResult.action # "abort"

\* ------------------------------------------------------ return of shutdown()

\* A shutdown() call returns in this step: a repeated call, at its entry
\* check, or the first call, after Promise.all.
ShutdownReturns ==
  \/ shutdownCalls' # shutdownCalls /\ isShuttingDown
  \/ shutdownPc = "closing" /\ shutdownPc' = "done"

\* C39: when a shutdown() call returns, every browser of the pool has been
\* closed (or its close() has failed).
C39_ClosedWhenShutdownReturns ==
  [][ShutdownReturns =>
       \A b \in Tracked : browserState'[b] # "connected" \/ b \in closeFailed']_vars

====
